---- MODULE Spec2Model ----
(***************************************************************************)
(* A model of wasmtime's runtime Component                                 *)
(* (crates/wasmtime/src/runtime/component/component.rs): construction from *)
(* compilation output or from a serialized image, the shared, reference    *)
(* counted ComponentInner, the resource estimator, the function pointer    *)
(* resolver and the pre-instantiation type query.                          *)
(***************************************************************************)
EXTENDS Integers, Sequences, FiniteSets, Bags, TLC

VARIABLES
    allocator,  \* engine.allocator(): the instance limits of the engine
    registry,   \* the engine-wide signature registry: live TypeCollections
    codes,      \* heap of Arc<CodeObject> allocations, by allocation number
    inners,     \* heap of Arc<ComponentInner> allocations, by allocation number
    handles,    \* the bag of Component values held by the embedder's threads
    blob,       \* the byte vector the embedder keeps (a result of serialize)
    ctor,       \* the Component::from_parts call in flight
    est,        \* the Component::resources_required call in flight
    ret,        \* the value returned by the last completed call
    kept,       \* the types::Component the embedder keeps (a result of component_type)
    instances,  \* the Instances created so far, by instance number
    formats,    \* cranelift meta: the InstructionFormats defined so far
    fmt         \* cranelift meta: the lines gen_common_isle wrote to its Formatter

vars == <<allocator, registry, codes, inners, handles, blob, ctor, est, ret, kept,
          instances, formats, fmt>>

----------------------------------------------------------------------------
(* Bounds of the model. *)

MaxComponents == 2      \* constructions started in one behaviour
MaxHandles == 2         \* Component values alive at once
MaxInits == 3           \* length of an initializer list (estimator inputs)
MaxInstances == 2       \* instantiations in one behaviour
MaxFormats == 2         \* instruction formats handed to gen_common_isle
MaxOperands == 3        \* value and block operands of one instruction format

----------------------------------------------------------------------------
(* Option and Result values. *)

None == [tag |-> "None"]
Some(x) == [tag |-> "Some", v |-> x]
IsSome(o) == o.tag = "Some"

Ok(x) == [tag |-> "Ok", v |-> x]
Err(e) == [tag |-> "Err", e |-> e]
Panic == [tag |-> "Panic"]
IsOk(r) == r.tag = "Ok"

Max(a, b) == IF a >= b THEN a ELSE b

RECURSIVE Concat(_)
Concat(ss) == IF ss = <<>> THEN <<>> ELSE Head(ss) \o Concat(Tail(ss))

RECURSIVE SeqMax(_)
SeqMax(s) == IF s = <<>> THEN 0 ELSE Max(Head(s), SeqMax(Tail(s)))

Seqs(S, n) == UNION {[1..k -> S] : k \in 0..n}

----------------------------------------------------------------------------
(* GlobalInitializer, InstantiateModule (wasmtime_environ::component).     *)

NeutralKinds ==
    {"LowerImport", "ExtractMemory", "ExtractRealloc", "ExtractPostReturn", "Resource"}

Static(index) == [kind |-> "Static", index |-> index]
Import == [kind |-> "Import", index |-> 0]
Neutral(k) == [kind |-> k, index |-> 0]

(* FunctionLoc: an offset and a length into the text section. *)
FunctionLoc(start, length) == [start |-> start, length |-> length]

(* AllCallFunc<FunctionLoc>: the three entry points of one trampoline. *)
AllCallFunc(w, a, n) == [wasm_call |-> w, array_call |-> a, native_call |-> n]

----------------------------------------------------------------------------
(* ResourcesRequired and the nested Module's own estimate.                 *)

ResourcesRequired(nm, mm, nt, mt) ==
    [num_memories |-> nm, max_initial_memory_size |-> mm,
     num_tables |-> nt, max_initial_table_size |-> mt]

(* max over Option<u32>, None below every Some *)
OptMax(a, b) ==
    IF ~IsSome(a) THEN b
    ELSE IF ~IsSome(b) THEN a
    ELSE Some(Max(a.v, b.v))

(* ResourcesRequired::add *)
add(self, other) ==
    ResourcesRequired(
        self.num_memories + other.num_memories,
        OptMax(self.max_initial_memory_size, other.max_initial_memory_size),
        self.num_tables + other.num_tables,
        OptMax(self.max_initial_table_size, other.max_initial_table_size))

(* Module::resources_required: a module is the minimum sizes of its        *)
(* defined memories and of its defined tables.                             *)
ModuleResourcesRequired(module) ==
    ResourcesRequired(
        Len(module.memories),
        IF module.memories = <<>> THEN None ELSE Some(SeqMax(module.memories)),
        Len(module.tables),
        IF module.tables = <<>> THEN None ELSE Some(SeqMax(module.tables)))

----------------------------------------------------------------------------
(* ComponentArtifacts: what compilation hands to from_parts, and what is   *)
(* embedded, encoded, in the image's wasmtime-info section.                *)
(*   ty             TypeComponentIndex into types.components               *)
(*   info           CompiledComponentInfo                                  *)
(*   types          ComponentTypes                                         *)
(*   static_modules PrimaryMap<StaticModuleIndex, CompiledModuleInfo>      *)

ComponentArtifacts(ty, info, types, static_modules) ==
    [ty |-> ty, info |-> info, types |-> types, static_modules |-> static_modules]

CompiledComponentInfo(component, trampolines, drop) ==
    [component |-> component, trampolines |-> trampolines,
     resource_drop_wasm_to_native_trampoline |-> drop]

(* An import or export of a component type: a name and a TypeDef. *)
Names == <<"x", "y">>
NameCode(n) == CHOOSE i \in 1..Len(Names) : Names[i] = n
Item(name, kind, index) == [name |-> name, kind |-> kind, index |-> index]

(* The structured binary scheme of the metadata record: every field in     *)
(* declaration order, a sequence as its length followed by its elements,   *)
(* an enum as its variant number followed by the variant's fields, an      *)
(* Option as 0 or as 1 followed by the value.                              *)

InitKinds ==
    <<"Static", "Import", "LowerImport", "ExtractMemory", "ExtractRealloc",
      "ExtractPostReturn", "Resource">>
KindTag(k) == (CHOOSE i \in 1..Len(InitKinds) : InitKinds[i] = k) - 1

ItemKinds == <<"Resource", "Func">>
ItemTag(k) == (CHOOSE i \in 1..Len(ItemKinds) : ItemKinds[i] = k) - 1

EncLoc(l) == <<l.start, l.length>>

RECURSIVE EncOne(_, _)
EncSeq(what, s) == <<Len(s)>> \o Concat([i \in 1..Len(s) |-> EncOne(what, s[i])])
EncOne(what, x) ==
    CASE what = "nat" -> <<x>>
      [] what = "init" ->
            IF x.kind = "Static" THEN <<KindTag(x.kind), x.index>>
            ELSE <<KindTag(x.kind)>>
      [] what = "loc" -> EncLoc(x)
      [] what = "tramp" ->
            EncLoc(x.wasm_call) \o EncLoc(x.array_call) \o EncLoc(x.native_call)
      [] what = "optloc" -> IF IsSome(x) THEN <<1>> \o EncLoc(x.v) ELSE <<0>>
      [] what = "item" -> <<NameCode(x.name), ItemTag(x.kind), x.index>>
      [] what = "ctype" -> EncSeq("item", x.imports) \o EncSeq("item", x.exports)
      [] what = "module" -> EncSeq("nat", x.memories) \o EncSeq("nat", x.tables)

(* postcard::to_allocvec(&artifacts) *)
to_bytes(a) ==
    <<a.ty>>
    \o EncSeq("init", a.info.component.initializers)
    \o EncSeq("tramp", a.info.trampolines)
    \o EncOne("optloc", a.info.resource_drop_wasm_to_native_trampoline)
    \o EncSeq("nat", a.types.module_types)
    \o EncSeq("ctype", a.types.components)
    \o EncSeq("module", a.static_modules)

DecFail == [ok |-> FALSE]
DecOk(v, rest) == [ok |-> TRUE, v |-> v, rest |-> rest]

DecNat(bs) == IF bs = <<>> THEN DecFail ELSE DecOk(Head(bs), Tail(bs))

(* The decoders.  A result is DecFail, or DecOk(value, bytes left over).   *)
(* A record is decoded field by field, each field going on from where the  *)
(* one before it stopped; the first failure fails the whole.               *)
RECURSIVE DecOne(_, _), DecFields(_, _)

DecAppend(v, t) == IF t.ok THEN DecOk(<<v>> \o t.v, t.rest) ELSE DecFail
DecCons(h, whats) ==
    IF h.ok THEN DecAppend(h.v, DecFields(whats, h.rest)) ELSE DecFail
DecFields(whats, bs) ==
    IF whats = <<>> THEN DecOk(<<>>, bs)
    ELSE DecCons(DecOne(Head(whats), bs), Tail(whats))

(* a sequence: its length, then its elements *)
DecCount(what, n) ==
    IF n.ok THEN DecFields([i \in 1..n.v |-> what], n.rest) ELSE DecFail
DecSeq(what, bs) == DecCount(what, DecNat(bs))

AsLoc(r) == IF r.ok THEN DecOk(FunctionLoc(r.v[1], r.v[2]), r.rest) ELSE DecFail
AsTramp(r) ==
    IF r.ok THEN DecOk(AllCallFunc(r.v[1], r.v[2], r.v[3]), r.rest) ELSE DecFail
AsStatic(i) == IF i.ok THEN DecOk(Static(i.v), i.rest) ELSE DecFail
AsInit(t) ==
    IF ~t.ok THEN DecFail
    ELSE IF t.v = KindTag("Static") THEN AsStatic(DecNat(t.rest))
    ELSE IF t.v = KindTag("Import") THEN DecOk(Import, t.rest)
    ELSE IF t.v + 1 \in 1..Len(InitKinds)
        THEN DecOk(Neutral(InitKinds[t.v + 1]), t.rest)
    ELSE DecFail
AsSome(l) == IF l.ok THEN DecOk(Some(l.v), l.rest) ELSE DecFail
AsOption(t) ==
    IF ~t.ok THEN DecFail
    ELSE IF t.v = 0 THEN DecOk(None, t.rest)
    ELSE IF t.v = 1 THEN AsSome(DecOne("loc", t.rest))
    ELSE DecFail
AsItem(r) ==
    IF ~r.ok THEN DecFail
    ELSE IF r.v[1] \notin 1..Len(Names) THEN DecFail
    ELSE IF r.v[2] + 1 \notin 1..Len(ItemKinds) THEN DecFail
    ELSE DecOk(Item(Names[r.v[1]], ItemKinds[r.v[2] + 1], r.v[3]), r.rest)
AsCType(r) ==
    IF r.ok THEN DecOk([imports |-> r.v[1], exports |-> r.v[2]], r.rest)
    ELSE DecFail
AsModule(r) ==
    IF r.ok THEN DecOk([memories |-> r.v[1], tables |-> r.v[2]], r.rest)
    ELSE DecFail

DecOne(what, bs) ==
    CASE what = "nat" -> DecNat(bs)
      [] what = "init" -> AsInit(DecNat(bs))
      [] what = "loc" -> AsLoc(DecFields(<<"nat", "nat">>, bs))
      [] what = "tramp" -> AsTramp(DecFields(<<"loc", "loc", "loc">>, bs))
      [] what = "optloc" -> AsOption(DecNat(bs))
      [] what = "item" -> AsItem(DecFields(<<"nat", "nat", "nat">>, bs))
      [] what = "ctype" -> AsCType(DecFields(<<"items", "items">>, bs))
      [] what = "module" -> AsModule(DecFields(<<"nats", "nats">>, bs))
      [] what = "nats" -> DecSeq("nat", bs)
      [] what = "items" -> DecSeq("item", bs)
      [] what = "inits" -> DecSeq("init", bs)
      [] what = "tramps" -> DecSeq("tramp", bs)
      [] what = "ctypes" -> DecSeq("ctype", bs)
      [] what = "modules" -> DecSeq("module", bs)

(* A decoder that unwraps its result instead of handing the error on. *)
AsArtifactsUnwrapping(r) ==
    IF r.ok
        THEN Ok(ComponentArtifacts(
                r.v[1],
                CompiledComponentInfo([initializers |-> r.v[2]], r.v[3], r.v[4]),
                [module_types |-> r.v[5], components |-> r.v[6]],
                r.v[7]))
        ELSE Panic

AsArtifacts(r) ==
    IF r.ok
        THEN Ok(ComponentArtifacts(
                r.v[1],
                CompiledComponentInfo([initializers |-> r.v[2]], r.v[3], r.v[4]),
                [module_types |-> r.v[5], components |-> r.v[6]],
                r.v[7]))
        ELSE Err("decode")

(* postcard::from_bytes::<ComponentArtifacts>: Ok(artifacts), or Err when  *)
(* the bytes end early or hold an unknown variant number.  Bytes after the *)
(* record are ignored.                                                     *)
from_bytes(bs) ==
    AsArtifacts(DecFields(
        <<"nat", "inits", "tramps", "optloc", "nats", "ctypes", "modules">>, bs))

----------------------------------------------------------------------------
(* CodeMemory: the image (the mmap'd bytes of the whole object), and the   *)
(* ranges of its text section and of its wasmtime-info section.  An image  *)
(* is a header <<magic, object kind, text length>>, the text, the info.    *)

ImageHeader(kind, textLen) == <<127, kind, textLen>>
ObjectKindModule == 0
ObjectKindComponent == 1

CodeMemory(mmap, textLen) ==
    [mmap |-> mmap,
     text |-> [start |-> 3, len |-> textLen],
     info |-> [start |-> 3 + textLen, len |-> Len(mmap) - 3 - textLen]]

(* Engine::load_code_bytes(bytes, expected): Err for bytes that are no     *)
(* image of the expected kind.                                             *)
load_code_bytes(bytes, expected) ==
    IF Len(bytes) < 3 THEN Err("object")
    ELSE IF bytes[1] # 127 THEN Err("object")
    ELSE IF bytes[2] # expected THEN Err("kind")
    ELSE IF bytes[3] > Len(bytes) - 3 THEN Err("object")
    ELSE Ok(CodeMemory(bytes, bytes[3]))

Slice(s, start, len) == [i \in 1..len |-> s[start + i]]

(* CodeMemory::wasmtime_info *)
wasmtime_info(cm) == Slice(cm.mmap, cm.info.start, cm.info.len)

(* The address an image is mapped at: one region per CodeObject            *)
(* allocation, never at address 0.                                         *)
MapBase(codeId) == 4096 * codeId

(* MmapVec::image_range of the code memory of CodeObject number codeId *)
ImageRange(codeId, cm) ==
    [start |-> MapBase(codeId), end |-> MapBase(codeId) + Len(cm.mmap)]

InRange(addr, range) == range.start <= addr /\ addr < range.end

----------------------------------------------------------------------------
(* The producer (CodeBuilder::compile_component): from a description of a  *)
(* source component to its artifacts and its image.  Functions are laid    *)
(* out one after another in the text; function number k is FuncLen(k)      *)
(* bytes long.                                                             *)

FuncLen(k) == 1 + (k % 2)

RECURSIVE FuncStart(_)
FuncStart(k) == IF k = 0 THEN 0 ELSE FuncStart(k - 1) + FuncLen(k - 1)

FuncLocOf(k) == FunctionLoc(FuncStart(k), FuncLen(k))

NumFuncs(src) == 3 * src.ntramp + (IF src.drop THEN 1 ELSE 0)

TextOf(src) ==
    Concat([k \in 1..NumFuncs(src) |-> [j \in 1..FuncLen(k - 1) |-> 200 + k]])

ArtifactsOf(src) ==
    ComponentArtifacts(
        src.ty,
        CompiledComponentInfo(
            [initializers |-> src.inits],
            [t \in 1..src.ntramp |->
                AllCallFunc(FuncLocOf(3 * (t - 1)), FuncLocOf(3 * (t - 1) + 1),
                            FuncLocOf(3 * (t - 1) + 2))],
            IF src.drop THEN Some(FuncLocOf(3 * src.ntramp)) ELSE None),
        [module_types |-> [i \in 1..(src.ntramp + Len(src.modules)) |-> i],
         components |-> src.components],
        src.modules)

ImageOf(src) ==
    ImageHeader(ObjectKindComponent, Len(TextOf(src)))
    \o TextOf(src) \o to_bytes(ArtifactsOf(src))

----------------------------------------------------------------------------
(* The engine's instance allocator.  The on-demand allocator accepts every *)
(* component; the pooling allocator has fixed capacities.                  *)

OnDemand == [kind |-> "OnDemand"]
Pooling == [kind |-> "Pooling", total_core_instances |-> 2, total_memories |-> 4,
            total_tables |-> 1, max_memories_per_module |-> 1]
Allocators == {OnDemand, Pooling}

(* The closure handed to validate_component,                               *)
(*   &|module_index| &static_modules[module_index].module                  *)
get_module(static_modules, module_index) ==
    IF module_index < Len(static_modules)
        THEN Ok(static_modules[module_index + 1])
        ELSE Panic

InstantiatedStatic(component) ==
    {i \in 1..Len(component.initializers) : component.initializers[i].kind = "Static"}
Instantiated(component) ==
    {i \in 1..Len(component.initializers) :
        component.initializers[i].kind \in {"Static", "Import"}}

RECURSIVE SumOver(_, _)
SumOver(S, f) ==
    IF S = {} THEN 0
    ELSE LET x == CHOOSE y \in S : TRUE IN f[x] + SumOver(S \ {x}, f)

(* InstanceAllocator::validate_module of a CompiledModuleInfo *)
validate_module(alloc, module) ==
    IF alloc.kind = "OnDemand" THEN Ok("unit")
    ELSE IF Len(module.memories) > alloc.max_memories_per_module THEN Err("limits")
    ELSE Ok("unit")

(* InstanceAllocator::validate_component: Ok, or Err when the component's  *)
(* statically known instantiations exceed what the allocator can ever      *)
(* provide.  It looks every statically instantiated module up.             *)
validate_component(alloc, component, static_modules) ==
    LET statics == InstantiatedStatic(component)
        mods == [i \in statics |->
                    get_module(static_modules, component.initializers[i].index)]
    IN  IF alloc.kind = "OnDemand" THEN Ok("unit")
        ELSE IF \E i \in statics : ~IsOk(mods[i]) THEN Panic
        ELSE IF \E i \in statics : ~IsOk(validate_module(alloc, mods[i].v))
            THEN Err("limits")
        ELSE IF Cardinality(Instantiated(component)) > alloc.total_core_instances
            THEN Err("limits")
        ELSE IF SumOver(statics, [i \in statics |-> Len(mods[i].v.memories)])
                    > alloc.total_memories
            THEN Err("limits")
        ELSE IF SumOver(statics, [i \in statics |-> Len(mods[i].v.tables)])
                    > alloc.total_tables
            THEN Err("limits")
        ELSE Ok("unit")

----------------------------------------------------------------------------
(* The heap.  codes[c] is CodeObject allocation c, inners[n] ComponentInner *)
(* allocation n; strong is the Arc's strong count, 0 once destroyed.       *)
(* A Module is [code, info]: its share of the CodeObject and its           *)
(* CompiledModuleInfo.                                                     *)

CodeObject(code_memory, signatures, types) ==
    [code_memory |-> code_memory, signatures |-> signatures, types |-> types,
     strong |-> 1]

ComponentInner(ty, static_modules, code, info, realloc_func_type) ==
    [ty |-> ty, static_modules |-> static_modules, code |-> code, info |-> info,
     realloc_func_type |-> realloc_func_type, strong |-> 1]

(* The fields of ComponentInner, without the Arc's count. *)
Fields(inner) ==
    [ty |-> inner.ty, static_modules |-> inner.static_modules, code |-> inner.code,
     info |-> inner.info, realloc_func_type |-> inner.realloc_func_type]

(* FuncType::new(engine, [I32, I32, I32, I32], [I32]) *)
ReallocFuncType ==
    [params |-> <<"I32", "I32", "I32", "I32">>, results |-> <<"I32">>]

(* A held value: the ComponentInner it points to, whether it is a         *)
(* Component or an Arc<dyn ComponentRuntimeInfo>, and (for the record) the *)
(* ComponentInner of the Component it was first cloned from.               *)
Handle(inner, kind, origin) == [inner |-> inner, kind |-> kind, origin |-> origin]
Held == BagToSet(handles)
Self(h) == inners[h.inner]

----------------------------------------------------------------------------
(* The accessors of Component, on self = a ComponentInner of the heap.     *)

ty(self) == self.ty

env_component(self) == self.info.component

static_module(self, idx) ==
    IF idx < Len(self.static_modules) THEN Ok(self.static_modules[idx + 1]) ELSE Panic

code_object(self) == codes[self.code]

(* ComponentInner::component_types *)
types(self) == code_object(self).types

signatures(self) == code_object(self).signatures

text(self) ==
    LET cm == code_object(self).code_memory IN Slice(cm.mmap, cm.text.start, cm.text.len)

(* The address of the first byte of text(self). *)
text_ptr(self) == MapBase(self.code) + code_object(self).code_memory.text.start

(* A resolver that hands out the offset into the text, not its address. *)
funcOffset(self, loc) == Ok(loc.start)

(* A resolver that adds the offset to the base without looking at the     *)
(* bounds of the text.                                                     *)
funcUnchecked(self, loc) == Ok(text_ptr(self) + loc.start)

(* &text[loc.start..][..loc.length], then NonNull::new(ptr).unwrap() *)
func(self, loc) ==
    LET len == Len(text(self)) IN
    IF loc.start > len THEN Panic
    ELSE IF loc.length > len - loc.start THEN Panic
    ELSE IF text_ptr(self) + loc.start = 0 THEN Panic
    ELSE Ok(text_ptr(self) + loc.start)

AllCallFuncPointers(w, a, n) == [wasm_call |-> w, array_call |-> a, native_call |-> n]

trampoline_ptrs(self, index) ==
    IF index >= Len(self.info.trampolines) THEN Panic ELSE
    LET t == self.info.trampolines[index + 1]
        w == func(self, t.wasm_call)
        a == func(self, t.array_call)
        n == func(self, t.native_call)
    IN  IF IsOk(w) /\ IsOk(a) /\ IsOk(n)
            THEN Ok(AllCallFuncPointers(w.v, a.v, n.v))
            ELSE Panic

(* A serializer that leaves the wasmtime-info section out of the image. *)
serializeWithoutInfo(self) ==
    Ok(SubSeq(code_object(self).code_memory.mmap, 1,
              3 + code_object(self).code_memory.text.len))

(* An export of the text section alone, without the image's header. *)
serializeTextOnly(self) ==
    Ok(Slice(code_object(self).code_memory.mmap, 3, code_object(self).code_memory.text.len))

serialize(self) == Ok(code_object(self).code_memory.mmap)

image_range(self) == ImageRange(self.code, code_object(self).code_memory)

(* VMFuncRef and the HostFunc of a destructor. *)
VMFuncRef(native_call, array_call, wasm_call, type_index, vmctx) ==
    [native_call |-> native_call, array_call |-> array_call, wasm_call |-> wasm_call,
     type_index |-> type_index, vmctx |-> vmctx]

(* A lookup that hands the host's func_ref back as it is. *)
resource_drop_func_ref_host_only(self, dtor) == Ok(dtor.func_ref)

resource_drop_func_ref(self, dtor) ==
    IF IsSome(dtor.func_ref.wasm_call) THEN Panic ELSE
    LET loc == self.info.resource_drop_wasm_to_native_trampoline
        f == IF IsSome(loc) THEN func(self, loc.v) ELSE Panic
    IN  IF IsSome(loc) /\ ~IsOk(f) THEN Panic
        ELSE Ok([dtor.func_ref EXCEPT
                    !.wasm_call = IF IsSome(loc) THEN Some(f.v) ELSE None])

----------------------------------------------------------------------------
(* Component::resources_required.                                          *)

EmptyResources == ResourcesRequired(0, None, 0, None)

(* A loop body that gives up on an Import. *)
VisitPanickingOnImport(self, init, resources) ==
    IF init.kind = "Static" /\ IsOk(static_module(self, init.index))
        THEN [ctl |-> "next",
              resources |-> add(resources,
                    ModuleResourcesRequired(static_module(self, init.index).v.info))]
    ELSE IF init.kind = "Import" THEN [ctl |-> "panic", resources |-> resources]
    ELSE [ctl |-> "next", resources |-> resources]

(* A loop body that skips an Import like any other initializer. *)
VisitSkippingImport(self, init, resources) ==
    IF init.kind = "Static" /\ IsOk(static_module(self, init.index))
        THEN [ctl |-> "next",
              resources |-> add(resources,
                    ModuleResourcesRequired(static_module(self, init.index).v.info))]
        ELSE [ctl |-> "next", resources |-> resources]

(* A loop body that keeps the last module's needs instead of adding them. *)
VisitKeepingLast(self, init, resources) ==
    IF init.kind = "Static" /\ IsOk(static_module(self, init.index))
        THEN [ctl |-> "next",
              resources |-> ModuleResourcesRequired(static_module(self, init.index).v.info)]
    ELSE IF init.kind = "Import" THEN [ctl |-> "return", resources |-> resources]
    ELSE [ctl |-> "next", resources |-> resources]

(* A loop body that counts a memory for every ExtractMemory. *)
VisitCountingExtractMemory(self, init, resources) ==
    IF init.kind = "Static" /\ IsOk(static_module(self, init.index))
        THEN [ctl |-> "next",
              resources |-> add(resources,
                    ModuleResourcesRequired(static_module(self, init.index).v.info))]
    ELSE IF init.kind = "Import" THEN [ctl |-> "return", resources |-> resources]
    ELSE IF init.kind = "ExtractMemory"
        THEN [ctl |-> "next",
              resources |-> add(resources, ResourcesRequired(1, None, 0, None))]
    ELSE [ctl |-> "next", resources |-> resources]

(* A loop body that takes the first module's needs and no other's. *)
VisitKeepingFirst(self, init, resources) ==
    IF init.kind = "Static" /\ IsOk(static_module(self, init.index))
        THEN [ctl |-> "next",
              resources |-> IF resources = ResourcesRequired(0, None, 0, None)
                    THEN ModuleResourcesRequired(static_module(self, init.index).v.info)
                    ELSE resources]
    ELSE IF init.kind = "Import" THEN [ctl |-> "return", resources |-> resources]
    ELSE [ctl |-> "next", resources |-> resources]

(* One iteration of the loop over env_component().initializers: the match  *)
(* on init.  ctl says how the loop goes on: "next" (fall to the next       *)
(* initializer), "return" (return None) or "panic" (static_module's index  *)
(* is out of bounds).                                                      *)
Visit(self, init, resources) ==
    IF init.kind = "Static" THEN
        LET module == static_module(self, init.index) IN
        IF IsOk(module)
            THEN [ctl |-> "next",
                  resources |-> add(resources, ModuleResourcesRequired(module.v.info))]
            ELSE [ctl |-> "panic", resources |-> resources]
    ELSE IF init.kind = "Import" THEN [ctl |-> "return", resources |-> resources]
    ELSE [ctl |-> "next", resources |-> resources]

(* The whole call: Some(resources), None, or Panic. *)
RECURSIVE Scan(_, _, _)
Scan(self, i, resources) ==
    IF i > Len(env_component(self).initializers) THEN Some(resources) ELSE
    LET v == Visit(self, env_component(self).initializers[i], resources) IN
    IF v.ctl = "return" THEN None
    ELSE IF v.ctl = "panic" THEN Panic
    ELSE Scan(self, i + 1, v.resources)

resources_required(self) == Scan(self, 1, EmptyResources)

----------------------------------------------------------------------------
(* Component::component_type and the types it hands out.                   *)

(* An abstract resource type named by its index alone. *)
UninstantiatedByIndex(tys, index) ==
    [kind |-> "Uninstantiated", component |-> 0, index |-> index]

(* ResourceType::uninstantiated(types, index): an abstract resource type,  *)
(* named by the ComponentTypes allocation it belongs to and its index.     *)
Uninstantiated(tys, index) ==
    [kind |-> "Uninstantiated", component |-> tys.id, index |-> index]

(* InstanceType { types, resources } *)
InstanceType(tys, resources) == [types |-> tys, resources |-> resources]

(* An item that takes no notice of the substitution table. *)
ComponentItemUnsubstituted(def, it) ==
    IF def.kind = "Resource"
        THEN [kind |-> "Resource", ty |-> Uninstantiated(it.types, def.index)]
        ELSE [kind |-> def.kind,
              ty |-> [kind |-> "Func", component |-> 0, index |-> def.index]]

(* ComponentItem::from(def, instance_type): a resource is looked up in the *)
(* substitution table and is abstract when the table does not hold it.     *)
ComponentItem(def, it) ==
    IF def.kind = "Resource" THEN
        [kind |-> "Resource",
         ty |-> IF def.index < Len(it.resources)
                    THEN it.resources[def.index + 1]
                    ELSE Uninstantiated(it.types, def.index)]
    ELSE [kind |-> def.kind, ty |-> [kind |-> "Func", component |-> 0, index |-> def.index]]

(* A type query that resolves the exports against a copy of the type      *)
(* tables, a ComponentTypes allocation of its own.                         *)
TypesComponentCopyingTypes(index, it) ==
    [imports |-> [i \in 1..Len(it.types.components[index + 1].imports) |->
                    [name |-> it.types.components[index + 1].imports[i].name,
                     item |-> ComponentItem(it.types.components[index + 1].imports[i], it)]],
     exports |-> [i \in 1..Len(it.types.components[index + 1].exports) |->
                    [name |-> it.types.components[index + 1].exports[i].name,
                     item |-> ComponentItem(it.types.components[index + 1].exports[i],
                                InstanceType([it.types EXCEPT !.id = @ + MaxComponents + 1],
                                             it.resources))]]]

(* types::Component::from(index, instance_type), with its imports() and    *)
(* exports() evaluated: sequences of <<name, item>>.                       *)
TypesComponent(index, it) ==
    LET ct == it.types.components[index + 1] IN
    [imports |-> [i \in 1..Len(ct.imports) |->
                    [name |-> ct.imports[i].name, item |-> ComponentItem(ct.imports[i], it)]],
     exports |-> [i \in 1..Len(ct.exports) |->
                    [name |-> ct.exports[i].name, item |-> ComponentItem(ct.exports[i], it)]]]

(* A type query that names the type tables by the number of holders of    *)
(* the ComponentInner at the time of the call.                             *)
component_type_by_holders(self) ==
    TypesComponent(self.ty,
        InstanceType([types(self) EXCEPT !.id = @ + self.strong * (MaxComponents + 1)],
                     <<>>))

component_type(self) ==
    LET resources == <<>> IN
    TypesComponent(self.ty, InstanceType(types(self), resources))

----------------------------------------------------------------------------
(* Inputs: the source components the embedder compiles.                    *)

Source(tyIndex, components, inits, ntramp, drop, modules) ==
    [ty |-> tyIndex, components |-> components, inits |-> inits, ntramp |-> ntramp,
     drop |-> drop, modules |-> modules]

ComponentType(imports, exports) == [imports |-> imports, exports |-> exports]
ModuleInfo(memories, tables) == [memories |-> memories, tables |-> tables]

(* (component (import "x" (type $x (sub resource))) (export "x" (type $x))) *)
SrcReExport ==
    Source(0, <<ComponentType(<<Item("x", "Resource", 0)>>, <<Item("x", "Resource", 0)>>)>>,
           <<Neutral("LowerImport")>>, 1, FALSE, <<>>)

(* A component that defines a resource with a destructor and exports it    *)
(* beside an imported one, and instantiates one core module.               *)
SrcDefined ==
    Source(1, <<ComponentType(<<>>, <<>>),
                ComponentType(<<Item("y", "Resource", 0), Item("x", "Func", 0)>>,
                              <<Item("x", "Resource", 1), Item("y", "Resource", 0)>>)>>,
           <<Neutral("LowerImport"), Static(0), Neutral("ExtractMemory"),
             Neutral("Resource")>>,
           2, TRUE, <<ModuleInfo(<<1>>, <<2>>)>>)

(* A core module with (memory 1) (memory 6), instantiated three times. *)
SrcThreeInstances ==
    Source(0, <<ComponentType(<<>>, <<>>)>>,
           <<Static(0), Static(0), Static(0)>>, 0, FALSE, <<ModuleInfo(<<1, 6>>, <<>>)>>)

(* A component that instantiates an imported core module, and holds a     *)
(* second core module that it never instantiates.                          *)
SrcInstantiatesImport ==
    Source(0, <<ComponentType(<<>>, <<>>)>>,
           <<Static(0), Import>>, 1, TRUE,
           <<ModuleInfo(<<>>, <<3>>), ModuleInfo(<<1, 6>>, <<>>)>>)

(* What the embedder compiles: in the life cycle, and under the calls. *)
Sources == {SrcDefined, SrcThreeInstances, SrcInstantiatesImport}
CallSources == {SrcReExport, SrcDefined}

(* The estimator's inputs: every initializer list up to MaxInits over      *)
(* each of these tables of static modules, each Static index in range.     *)
ModuleTables ==
    {<<>>,
     <<ModuleInfo(<<1, 6>>, <<>>)>>,
     <<ModuleInfo(<<1, 6>>, <<>>), ModuleInfo(<<2>>, <<3>>)>>,
     <<ModuleInfo(<<>>, <<>>), ModuleInfo(<<>>, <<4, 1>>)>>}

InitsOver(n) ==
    {Static(i) : i \in 0..(n - 1)} \cup {Import} \cup {Neutral(k) : k \in NeutralKinds}

EstSources ==
    {Source(0, <<ComponentType(<<>>, <<>>)>>, ii, 0, FALSE, mm) :
        <<mm, ii>> \in UNION {{<<m, i>> : i \in Seqs(InitsOver(Len(m)), MaxInits)} :
                                m \in ModuleTables}}

(* The destructors the embedder registers: HostFuncs, whose func_ref has   *)
(* no wasm_call.                                                           *)
Dtors ==
    {[func_ref |-> VMFuncRef(na, 7000 + na, None, 5, 9000)] : na \in {6000, 6001}}

----------------------------------------------------------------------------
(* The state after the engine is built and nothing is constructed yet.     *)

Idle(n) == [pc |-> "idle", n |-> n]

Init ==
    /\ allocator \in Allocators
    /\ registry = <<>>
    /\ codes = <<>>
    /\ inners = <<>>
    /\ handles = EmptyBag
    /\ blob = [bytes |-> <<>>, from |-> 0]
    /\ ctor = Idle(0)
    /\ est = [pc |-> "idle"]
    /\ ret = [op |-> "none"]
    /\ kept = [inner |-> 0]
    /\ instances = <<>>
    /\ formats = <<>>
    /\ fmt = <<>>

(* Releasing k shares of CodeObject c: at count 0 the CodeObject is        *)
(* destroyed, and with it its TypeCollection's registration.               *)
CodesAfterRelease(c, k) == [codes EXCEPT ![c].strong = @ - k]
RegistryAfterRelease(reg, c, k) ==
    IF codes[c].strong = k
        THEN [reg EXCEPT ![codes[c].signatures].live = FALSE]
        ELSE reg

(* from_parts returns v (Ok or Err) or panics. *)
Return(v) ==
    /\ ret' = [op |-> "from_parts", v |-> v, blob |-> ctor.blob]
    /\ ctor' = Idle(ctor.n)

----------------------------------------------------------------------------
(* Construction.                                                           *)

CanConstruct ==
    ctor.pc = "idle" /\ ctor.n < MaxComponents /\ BagCardinality(handles) < MaxHandles

(* Component::new, from_file, from_binary: compile, then                   *)
(* from_parts(engine, code_memory, Some(artifacts)).                       *)
New(src) ==
    /\ CanConstruct
    /\ ctor' = [pc |-> "decode", n |-> ctor.n + 1,
                code_memory |-> CodeMemory(ImageOf(src), Len(TextOf(src))),
                artifacts |-> Some(ArtifactsOf(src)), blob |-> 0]
    /\ UNCHANGED <<formats, fmt, kept, instances, allocator, registry, codes, inners, handles, blob, est, ret>>

(* Component::deserialize, deserialize_file: load the image (an Err        *)
(* returns at once), then from_parts(engine, code, None).                  *)
Deserialize(b) ==
    /\ CanConstruct
    /\ LET code == load_code_bytes(b.bytes, ObjectKindComponent) IN
        IF IsOk(code)
            THEN /\ ctor' = [pc |-> "decode", n |-> ctor.n + 1, code_memory |-> code.v,
                             artifacts |-> None, blob |-> b.from]
                 /\ ret' = ret
            ELSE /\ ctor' = Idle(ctor.n + 1)
                 /\ ret' = [op |-> "deserialize", v |-> code, blob |-> b.from]
    /\ UNCHANGED <<formats, fmt, kept, instances, allocator, registry, codes, inners, handles, blob, est>>

(* let ComponentArtifacts { ty, info, types, static_modules } =            *)
(*     match artifacts { Some(a) => a, None => postcard::from_bytes(..)? } *)
Decoded ==
    IF IsSome(ctor.artifacts)
        THEN Ok(ctor.artifacts.v)
        ELSE from_bytes(wasmtime_info(ctor.code_memory))

FromPartsDecode ==
    /\ ctor.pc = "decode"
    /\ IF IsOk(Decoded)
        THEN /\ ctor' = [pc |-> "validate", n |-> ctor.n, blob |-> ctor.blob,
                         code_memory |-> ctor.code_memory,
                         ty |-> Decoded.v.ty, info |-> Decoded.v.info,
                         types |-> Decoded.v.types,
                         static_modules |-> Decoded.v.static_modules,
                         signatures |-> 0, code |-> 0]
             /\ ret' = ret
        ELSE Return(Decoded)
    /\ UNCHANGED <<formats, fmt, kept, instances, allocator, registry, codes, inners, handles, blob, est>>

(* A validation that comes after the registration: the signatures are     *)
(* registered whether the allocator accepts the component or not.          *)
FromPartsValidateAfterRegistering ==
    /\ ctor.pc = "validate"
    /\ registry' = Append(registry,
            [kind |-> "TypeCollection", types |-> ctor.types.module_types,
             live |-> IsOk(validate_component(allocator, ctor.info.component,
                                              ctor.static_modules))])
    /\ IF IsOk(validate_component(allocator, ctor.info.component, ctor.static_modules))
        THEN ctor' = [ctor EXCEPT !.pc = "assemble", !.signatures = Len(registry) + 1]
                /\ ret' = ret
        ELSE Return(validate_component(allocator, ctor.info.component, ctor.static_modules))
    /\ UNCHANGED <<formats, fmt, kept, instances, allocator, codes, inners, handles, blob, est>>

(* engine.allocator().validate_component(&info.component, .., get_module)? *)
FromPartsValidate ==
    /\ ctor.pc = "validate"
    /\ LET v == validate_component(allocator, ctor.info.component, ctor.static_modules) IN
        IF IsOk(v)
            THEN ctor' = [ctor EXCEPT !.pc = "register"] /\ ret' = ret
            ELSE Return(v)
    /\ UNCHANGED <<formats, fmt, kept, instances, allocator, registry, codes, inners, handles, blob, est>>

(* A registration that reuses a live TypeCollection of the same types. *)
FromPartsRegisterDeduplicating ==
    /\ ctor.pc = "register"
    /\ IF \E i \in 1..Len(registry) :
            /\ registry[i].kind = "TypeCollection" /\ registry[i].live
            /\ registry[i].types = ctor.types.module_types
        THEN /\ registry' = registry
             /\ ctor' = [ctor EXCEPT !.pc = "assemble",
                    !.signatures = CHOOSE i \in 1..Len(registry) :
                        /\ registry[i].kind = "TypeCollection" /\ registry[i].live
                        /\ registry[i].types = ctor.types.module_types]
        ELSE /\ registry' = Append(registry,
                    [kind |-> "TypeCollection", types |-> ctor.types.module_types,
                     live |-> TRUE])
             /\ ctor' = [ctor EXCEPT !.pc = "assemble", !.signatures = Len(registry) + 1]
    /\ UNCHANGED <<formats, fmt, kept, instances, allocator, codes, inners, handles, blob, est, ret>>

(* let signatures = TypeCollection::new_for_module(engine, types.module_types()) *)
FromPartsRegister ==
    /\ ctor.pc = "register"
    /\ registry' = Append(registry,
            [kind |-> "TypeCollection", types |-> ctor.types.module_types, live |-> TRUE])
    /\ ctor' = [ctor EXCEPT !.pc = "assemble", !.signatures = Len(registry) + 1]
    /\ UNCHANGED <<formats, fmt, kept, instances, allocator, codes, inners, handles, blob, est, ret>>

(* let types = Arc::new(types);                                            *)
(* let code = Arc::new(CodeObject::new(code_memory, signatures, types.into())) *)
FromPartsAssemble ==
    /\ ctor.pc = "assemble"
    /\ codes' = Append(codes,
            CodeObject(ctor.code_memory, ctor.signatures,
                       [id |-> Len(codes) + 1,
                        module_types |-> ctor.types.module_types,
                        components |-> ctor.types.components]))
    /\ ctor' = [ctor EXCEPT !.pc = "modules", !.code = Len(codes) + 1]
    /\ UNCHANGED <<formats, fmt, kept, instances, allocator, registry, inners, handles, blob, est, ret>>

(* Module::from_parts_raw(engine, code.clone(), info, false): the Module,  *)
(* or Err when the module does not fit the allocator.                      *)
from_parts_raw(alloc, code, info) ==
    IF IsOk(validate_module(alloc, info))
        THEN Ok([code |-> code, info |-> info])
        ELSE Err("limits")

(* static_modules.into_iter().map(..).collect::<Result<_>>()?  On Err the  *)
(* modules built so far and code are dropped.                              *)
FromPartsModules ==
    /\ ctor.pc = "modules"
    /\ LET mods == [i \in 1..Len(ctor.static_modules) |->
                        from_parts_raw(allocator, ctor.code, ctor.static_modules[i])]
       IN IF \A i \in 1..Len(mods) : IsOk(mods[i])
            THEN /\ ctor' = [ctor EXCEPT !.pc = "finish",
                                !.static_modules = [i \in 1..Len(mods) |-> mods[i].v]]
                 /\ codes' = [codes EXCEPT ![ctor.code].strong = @ + Len(mods)]
                 /\ registry' = registry
                 /\ ret' = ret
            ELSE /\ Return(Err("limits"))
                 /\ codes' = CodesAfterRelease(ctor.code, 1)
                 /\ registry' = RegistryAfterRelease(registry, ctor.code, 1)
    /\ UNCHANGED <<formats, fmt, kept, instances, allocator, inners, handles, blob, est>>

(* let realloc_func_type = Arc::new(FuncType::new(..)) as _;               *)
(* Ok(Component { inner: Arc::new(ComponentInner { .. }) })                *)
FromPartsFinish ==
    /\ ctor.pc = "finish"
    /\ registry' = Append(registry,
            [kind |-> "FuncType", types |-> <<ReallocFuncType>>, live |-> TRUE])
    /\ inners' = Append(inners,
            ComponentInner(ctor.ty, ctor.static_modules, ctor.code, ctor.info,
                           Len(registry) + 1))
    /\ handles' = handles (+) SetToBag({Handle(Len(inners) + 1, "Component", Len(inners) + 1)})
    /\ ret' = [op |-> "from_parts", v |-> Ok(Len(inners) + 1), blob |-> ctor.blob]
    /\ ctor' = Idle(ctor.n)
    /\ UNCHANGED <<formats, fmt, kept, instances, allocator, codes, blob, est>>

----------------------------------------------------------------------------
(* Clone and Drop of the Arc<ComponentInner>.                              *)

(* A slot stays free for the construction in flight. *)
CanHold == BagCardinality(handles) + (IF ctor.pc = "idle" THEN 0 ELSE 1) < MaxHandles

(* A clone that copies the ComponentInner: a new allocation, holding its  *)
(* own shares of the CodeObject.                                           *)
CloneCopyingInner(h) ==
    /\ h.kind = "Component"
    /\ CanHold
    /\ inners' = Append(inners, [inners[h.inner] EXCEPT !.strong = 1])
    /\ codes' = [codes EXCEPT ![inners[h.inner].code].strong =
                        @ + 1 + Len(inners[h.inner].static_modules)]
    /\ handles' = handles (+) SetToBag({Handle(Len(inners) + 1, "Component", h.origin)})
    /\ ret' = [op |-> "clone", inner |-> h.inner, v |-> Len(inners) + 1]
    /\ UNCHANGED <<formats, fmt, kept, instances, allocator, registry, blob, ctor, est>>

(* #[derive(Clone)] on Component: Arc::clone(&self.inner) *)
Clone(h) ==
    /\ h.kind = "Component"
    /\ CanHold
    /\ handles' = handles (+) SetToBag({h})
    /\ inners' = [inners EXCEPT ![h.inner].strong = @ + 1]
    /\ ret' = [op |-> "clone", inner |-> h.inner, v |-> h.inner]
    /\ UNCHANGED <<formats, fmt, kept, instances, allocator, registry, codes, blob, ctor, est>>

(* A runtime_info that moves the trampoline table out of the ComponentInner. *)
RuntimeInfoTakingTrampolines(h) ==
    /\ h.kind = "Component"
    /\ CanHold
    /\ handles' = handles (+) SetToBag({[h EXCEPT !.kind = "RuntimeInfo"]})
    /\ inners' = [inners EXCEPT ![h.inner].strong = @ + 1,
                                ![h.inner].info.trampolines = <<>>]
    /\ ret' = [op |-> "runtime_info", inner |-> h.inner, v |-> h.inner]
    /\ UNCHANGED <<formats, fmt, kept, instances, allocator, registry, codes, blob, ctor, est>>

(* Component::runtime_info: self.inner.clone() as Arc<dyn ComponentRuntimeInfo> *)
RuntimeInfo(h) ==
    /\ h.kind = "Component"
    /\ CanHold
    /\ handles' = handles (+) SetToBag({[h EXCEPT !.kind = "RuntimeInfo"]})
    /\ inners' = [inners EXCEPT ![h.inner].strong = @ + 1]
    /\ ret' = [op |-> "runtime_info", inner |-> h.inner, v |-> h.inner]
    /\ UNCHANGED <<formats, fmt, kept, instances, allocator, registry, codes, blob, ctor, est>>

(* A Module of the static_modules table that is held outside the          *)
(* Component: a clone of the Arc<ModuleInner> that owns the Module's share *)
(* of the CodeObject.                                                      *)
ModuleHandle(inner, idx) ==
    [inner |-> inner, kind |-> "Module", origin |-> inner, idx |-> idx]

ModuleHeld(n, idx) == BagIn(ModuleHandle(n, idx), handles)

(* The static modules of ComponentInner n that nobody holds but n. *)
NumUnheldModules(n) ==
    Cardinality({i \in 1..Len(inners[n].static_modules) : ~ModuleHeld(n, i - 1)})

(* component.static_module(idx).clone() *)
StaticModuleClone(h, idx) ==
    /\ h.kind = "Component"
    /\ CanHold
    /\ idx < Len(Self(h).static_modules)
    /\ handles' = handles (+) SetToBag({ModuleHandle(h.inner, idx)})
    /\ ret' = [op |-> "static_module_clone", inner |-> h.inner, arg |-> idx]
    /\ UNCHANGED <<formats, fmt, kept, instances, allocator, registry, codes, inners, blob, ctor, est>>

(* Dropping a Module: the last holder of a ModuleInner releases the        *)
(* Module's share of the CodeObject.                                       *)
DropModule(h) ==
    /\ h.kind = "Module"
    /\ handles' = handles (-) SetToBag({h})
    /\ IF CopiesIn(h, handles) = 1 /\ inners[h.inner].strong = 0
        THEN /\ codes' = CodesAfterRelease(inners[h.inner].code, 1)
             /\ registry' = RegistryAfterRelease(registry, inners[h.inner].code, 1)
        ELSE UNCHANGED <<codes, registry>>
    /\ ret' = [op |-> "drop_module", inner |-> h.inner]
    /\ UNCHANGED <<formats, fmt, kept, instances, allocator, inners, blob, ctor, est>>

(* A drop that releases the ComponentInner's own share of the CodeObject   *)
(* and leaves the shares of its static modules behind.                     *)
DropKeepingModules(h) ==
    /\ h.kind # "Module"
    /\ handles' = handles (-) SetToBag({h})
    /\ inners' = [inners EXCEPT ![h.inner].strong = @ - 1]
    /\ IF inners[h.inner].strong = 1
        THEN /\ codes' = CodesAfterRelease(inners[h.inner].code, 1)
             /\ registry' = RegistryAfterRelease(
                    [registry EXCEPT ![inners[h.inner].realloc_func_type].live = FALSE],
                    inners[h.inner].code, 1)
        ELSE UNCHANGED <<codes, registry>>
    /\ ret' = [op |-> "drop", inner |-> h.inner]
    /\ UNCHANGED <<formats, fmt, kept, instances, allocator, blob, ctor, est>>

(* Dropping a Component (or a runtime info): the last one destroys the     *)
(* ComponentInner, that is its static modules' and its own shares of the   *)
(* CodeObject and its realloc FuncType.                                    *)
Drop(h) ==
    /\ h.kind # "Module"
    /\ est.pc # "idle" /\ est.inner = h.inner => inners[h.inner].strong > 1
    /\ handles' = handles (-) SetToBag({h})
    /\ LET n == h.inner
           self == inners[n]
           k == 1 + NumUnheldModules(n)
       IN /\ inners' = [inners EXCEPT ![n].strong = @ - 1]
          /\ IF self.strong = 1
                THEN /\ codes' = CodesAfterRelease(self.code, k)
                     /\ registry' = RegistryAfterRelease(
                            [registry EXCEPT ![self.realloc_func_type].live = FALSE],
                            self.code, k)
                ELSE UNCHANGED <<codes, registry>>
    /\ ret' = [op |-> "drop", inner |-> h.inner]
    /\ UNCHANGED <<formats, fmt, kept, instances, allocator, blob, ctor, est>>

----------------------------------------------------------------------------
(* Calls on a live Component, by any thread holding it.  ret records the   *)
(* call, the ComponentInner it ran on and its result.                      *)

Returned(op, inner, arg, v) ==
    ret' = [op |-> op, inner |-> inner, arg |-> arg, v |-> v]

CallComponentType(h) ==
    /\ h.kind = "Component"
    /\ Returned("component_type", h.inner, 0, component_type(Self(h)))
    /\ UNCHANGED <<formats, fmt, kept, instances, allocator, registry, codes, inners, handles, blob, ctor, est>>

CallTrampolinePtrs(h, index) ==
    /\ h.kind = "Component"
    /\ index < Len(Self(h).info.trampolines)
    /\ Returned("trampoline_ptrs", h.inner, index, trampoline_ptrs(Self(h), index))
    /\ UNCHANGED <<formats, fmt, kept, instances, allocator, registry, codes, inners, handles, blob, ctor, est>>

CallResourceDropFuncRef(h, dtor) ==
    /\ h.kind = "Component"
    /\ Returned("resource_drop_func_ref", h.inner, dtor, resource_drop_func_ref(Self(h), dtor))
    /\ UNCHANGED <<formats, fmt, kept, instances, allocator, registry, codes, inners, handles, blob, ctor, est>>

CallImageRange(h) ==
    /\ h.kind = "Component"
    /\ Returned("image_range", h.inner, 0, image_range(Self(h)))
    /\ UNCHANGED <<formats, fmt, kept, instances, allocator, registry, codes, inners, handles, blob, ctor, est>>

(* ty, env_component, static_module, types, signatures, text, code_object *)
Accessors == {"ty", "env_component", "static_module", "signatures", "text", "code_object"}

CallAccessor(h, name) ==
    /\ h.kind = "Component"
    /\ name = "static_module" => Self(h).static_modules # <<>>
    /\ Returned(name, h.inner, 0,
            CASE name = "ty" -> ty(Self(h))
              [] name = "env_component" -> env_component(Self(h))
              [] name = "static_module" -> static_module(Self(h), 0)
              [] name = "signatures" -> signatures(Self(h))
              [] name = "text" -> text(Self(h))
              [] name = "code_object" -> Self(h).code)
    /\ UNCHANGED <<formats, fmt, kept, instances, allocator, registry, codes, inners, handles, blob, ctor, est>>

(* func, trampoline_ptrs and static_module as the rest of the crate may    *)
(* call them: with any FunctionLoc and with any index, inside the tables   *)
(* and the text or not.                                                    *)
LocsAround(self) ==
    {FunctionLoc(s, l) : s \in 0..(Len(text(self)) + 1), l \in 0..(Len(text(self)) + 1)}

CallFunc(h, loc) ==
    /\ h.kind = "Component"
    /\ Returned("func", h.inner, loc, func(Self(h), loc))
    /\ UNCHANGED <<formats, fmt, kept, instances, allocator, registry, codes, inners, handles, blob, ctor, est>>

CallTrampolinePtrsAt(h, index) ==
    /\ h.kind = "Component"
    /\ Returned("trampoline_ptrs", h.inner, index, trampoline_ptrs(Self(h), index))
    /\ UNCHANGED <<formats, fmt, kept, instances, allocator, registry, codes, inners, handles, blob, ctor, est>>

CallStaticModule(h, idx) ==
    /\ h.kind = "Component"
    /\ Returned("static_module", h.inner, idx, static_module(Self(h), idx))
    /\ UNCHANGED <<formats, fmt, kept, instances, allocator, registry, codes, inners, handles, blob, ctor, est>>

(* Component::serialize; the embedder keeps the bytes. *)
CallSerialize(h) ==
    /\ h.kind = "Component"
    /\ Returned("serialize", h.inner, 0, serialize(Self(h)))
    /\ blob' = [bytes |-> serialize(Self(h)).v, from |-> h.inner]
    /\ UNCHANGED <<formats, fmt, kept, instances, allocator, registry, codes, inners, handles, ctor, est>>

(* The embedder's bytes get cut short (a partial write, a damaged file):   *)
(* what is left is no longer the result of serialize.                      *)
CutPoints(b) ==
    IF b.from = 0 THEN {} ELSE {2, 3 + b.bytes[3], Len(b.bytes) - 1}

Truncate(b, n) ==
    /\ b.from # 0
    /\ n < Len(b.bytes)
    /\ blob' = [bytes |-> SubSeq(b.bytes, 1, n), from |-> 0]
    /\ UNCHANGED <<formats, fmt, kept, instances, allocator, registry, codes, inners, handles, ctor, est, ret>>

(* Component::resources_required, one loop iteration at a time. *)
ResourcesRequiredBegin(h) ==
    /\ h.kind = "Component"
    /\ est.pc = "idle"
    /\ est' = [pc |-> "loop", inner |-> h.inner, i |-> 1, resources |-> EmptyResources]
    /\ UNCHANGED <<formats, fmt, kept, instances, allocator, registry, codes, inners, handles, blob, ctor, ret>>

ResourcesRequiredStep ==
    /\ est.pc = "loop"
    /\ LET self == inners[est.inner]
           inits == env_component(self).initializers
           v == Visit(self, inits[est.i], est.resources)
       IN IF est.i > Len(inits)
            THEN /\ Returned("resources_required", est.inner, 0, Some(est.resources))
                 /\ est' = [pc |-> "idle"]
          ELSE IF v.ctl = "return"
            THEN /\ Returned("resources_required", est.inner, 0, None)
                 /\ est' = [pc |-> "idle"]
          ELSE IF v.ctl = "panic"
            THEN /\ Returned("resources_required", est.inner, 0, Panic)
                 /\ est' = [pc |-> "idle"]
          ELSE /\ est' = [est EXCEPT !.i = @ + 1, !.resources = v.resources]
               /\ ret' = ret
    /\ UNCHANGED <<formats, fmt, kept, instances, allocator, registry, codes, inners, handles, blob, ctor>>

----------------------------------------------------------------------------
(* Instantiation, as far as resource types go (Linker::instantiate and     *)
(* Instance, in the words of the specification): an instance has a table   *)
(* of resource types, first the types supplied for the component's         *)
(* resource imports, then one type of the instance's own for every         *)
(* resource the component defines.                                         *)

(* ResourceType::host::<T>() *)
Host(t) == [kind |-> "Host", type |-> t]
HostTypes == {Host(1), Host(2)}

(* A type of a defined resource named by its index alone. *)
GuestByIndex(instance, index) == [kind |-> "Guest", instance |-> 0, index |-> index]

(* The type of a resource that an instance defines: a new identity at each *)
(* instantiation.                                                          *)
Guest(instance, index) == [kind |-> "Guest", instance |-> instance, index |-> index]

(* The resources a component imports and the resources it defines. *)
NumImportedResources(self) ==
    Cardinality({i \in 1..Len(types(self).components[self.ty + 1].imports) :
                    types(self).components[self.ty + 1].imports[i].kind = "Resource"})
NumDefinedResources(self) ==
    Cardinality({i \in 1..Len(env_component(self).initializers) :
                    env_component(self).initializers[i].kind = "Resource"})

ResourceTable(self, instance, supplied) ==
    supplied \o [r \in 1..NumDefinedResources(self) |->
                    Guest(instance, Len(supplied) + r - 1)]

(* What a linker can hold for a resource import: a host type, or a type    *)
(* of an instance that exists.                                             *)
Suppliable ==
    HostTypes \cup UNION {{instances[k].resources[r] : r \in 1..Len(instances[k].resources)} :
                            k \in 1..Len(instances)}

(* linker.instantiate(&mut store, &component): the instance keeps the      *)
(* component's runtime info, a share of the ComponentInner.                *)
Instantiate(h, supplied) ==
    /\ h.kind = "Component"
    /\ Len(instances) < MaxInstances
    /\ Len(supplied) = NumImportedResources(Self(h))
    /\ instances' = Append(instances,
            [inner |-> h.inner, supplied |-> supplied,
             resources |-> ResourceTable(Self(h), Len(instances) + 1, supplied)])
    /\ inners' = [inners EXCEPT ![h.inner].strong = @ + 1]
    /\ ret' = [op |-> "instantiate", inner |-> h.inner, arg |-> supplied,
               v |-> Len(instances) + 1]
    /\ UNCHANGED <<formats, fmt, kept, allocator, registry, codes, handles, blob, ctor, est>>

(* instance.exports(&mut store).root(): the exports of the component's     *)
(* type, seen through the instance's table.                                *)
InstanceExports(k) ==
    TypesComponent(inners[instances[k].inner].ty,
        InstanceType(types(inners[instances[k].inner]), instances[k].resources)).exports

(* Component::component_type, the embedder keeping the result: the first  *)
(* one it gets.                                                            *)
KeepComponentType(h) ==
    /\ h.kind = "Component"
    /\ kept.inner = 0
    /\ Returned("component_type", h.inner, 0, component_type(Self(h)))
    /\ kept' = [inner |-> h.inner, v |-> component_type(Self(h))]
    /\ UNCHANGED <<formats, fmt, instances, allocator, registry, codes, inners, handles, blob,
                   ctor, est>>

----------------------------------------------------------------------------
(* The specifications.                                                     *)

FromParts ==
    \/ FromPartsDecode
    \/ FromPartsValidate
    \/ FromPartsRegister
    \/ FromPartsAssemble
    \/ FromPartsModules
    \/ FromPartsFinish

Next ==
    \/ \E src \in Sources : New(src)
    \/ Deserialize(blob)
    \/ FromParts
    \/ \E h \in Held : Clone(h)
    \/ \E h \in Held : RuntimeInfo(h)
    \/ \E h \in Held : Drop(h)
    \/ \E h \in Held : CallSerialize(h)
    \/ \E n \in CutPoints(blob) : Truncate(blob, n)

(* The life cycle: construction on both paths, clones, drops, serialize. *)
Spec == Init /\ [][Next]_vars

(* The calls on live Components, interleaved with each other, with clones, *)
(* with drops and with further constructions.                              *)
InitCalls == Init /\ allocator = OnDemand

NextCalls ==
    \/ \E src \in CallSources : New(src)
    \/ FromParts
    \/ \E h \in Held : Clone(h)
    \/ \E h \in Held : RuntimeInfo(h)
    \/ \E h \in Held : Drop(h)
    \/ \E h \in Held : CallComponentType(h)
    \/ \E h \in Held, index \in 0..1 : CallTrampolinePtrs(h, index)
    \/ \E h \in Held, dtor \in Dtors : CallResourceDropFuncRef(h, dtor)
    \/ \E h \in Held : CallImageRange(h)
    \/ \E h \in Held, name \in Accessors : CallAccessor(h, name)
    \/ \E h \in Held : ResourcesRequiredBegin(h)
    \/ ResourcesRequiredStep

SpecCalls == InitCalls /\ [][NextCalls]_vars

(* The estimator on every input: one component is built from an estimator  *)
(* input and resources_required is called on it.                           *)
NextEstimator ==
    \/ ctor.n = 0 /\ \E src \in EstSources : New(src)
    \/ FromParts
    \/ \E h \in Held : ResourcesRequiredBegin(h)
    \/ ResourcesRequiredStep

SpecEstimator == Init /\ [][NextEstimator]_vars

----------------------------------------------------------------------------
(* What the claims speak of.                                               *)

(* The initializer list of ComponentInner n. *)
InitsOf(n) == inners[n].info.component.initializers

(* The positions of the Static entries of ComponentInner n, and the        *)
(* CompiledModuleInfo the entry at position i refers to.                   *)
StaticsOf(n) == {i \in 1..Len(InitsOf(n)) : InitsOf(n)[i].kind = "Static"}
ModuleOf(n, i) == inners[n].static_modules[InitsOf(n)[i].index + 1].info

SetMax(S) == CHOOSE x \in S : \A y \in S : y <= x
OptSetMax(S) == IF S = {} THEN None ELSE Some(SetMax(S))

(* The minimum sizes of all memories, and of all tables, of the modules    *)
(* that the Static entries of ComponentInner n refer to.                   *)
MemorySizesOf(n) ==
    UNION {{ModuleOf(n, i).memories[k] : k \in 1..Len(ModuleOf(n, i).memories)} :
            i \in StaticsOf(n)}
TableSizesOf(n) ==
    UNION {{ModuleOf(n, i).tables[k] : k \in 1..Len(ModuleOf(n, i).tables)} :
            i \in StaticsOf(n)}

(* The sums over every Static entry, each entry counted once, and the      *)
(* maxima with None as the identity.                                       *)
SumsAndMaxima(n) ==
    ResourcesRequired(
        SumOver(StaticsOf(n), [i \in StaticsOf(n) |-> Len(ModuleOf(n, i).memories)]),
        OptSetMax(MemorySizesOf(n)),
        SumOver(StaticsOf(n), [i \in StaticsOf(n) |-> Len(ModuleOf(n, i).tables)]),
        OptSetMax(TableSizesOf(n)))

HasImport(n) == \E i \in 1..Len(InitsOf(n)) : InitsOf(n)[i].kind = "Import"

EstimateReturned == ret.op = "resources_required"

(* C1: whenever resources_required returns on a component whose            *)
(* initializer list holds at least one Import entry, it returns None,      *)
(* whatever the other initializers before or after it are.                 *)
C1_ImportGivesNone ==
    EstimateReturned /\ HasImport(ret.inner) => ret.v = None

(* resources_required has returned on a list with Static entries on both   *)
(* sides of an Import.                                                     *)
C1_Witness ==
    /\ EstimateReturned
    /\ ret.v = None
    /\ \E i, j, k \in 1..Len(InitsOf(ret.inner)) :
        /\ i < j /\ j < k
        /\ InitsOf(ret.inner)[i].kind = "Static"
        /\ InitsOf(ret.inner)[j].kind = "Import"
        /\ InitsOf(ret.inner)[k].kind = "Static"

(* C2: whenever resources_required returns on a component whose            *)
(* initializer list holds no Import entry, it returns Some(r), where r's   *)
(* counts are the sums over every Static entry of the referenced module's  *)
(* counts and r's sizes are the maxima of these modules' sizes, None when  *)
(* no module has a memory (a table).  Three Static entries of a module     *)
(* with memories of minimum sizes 1 and 6 give 6, Some(6), 0, None.        *)
C2_StaticGivesSumsAndMaxima ==
    /\ EstimateReturned /\ ~HasImport(ret.inner)
        => ret.v = Some(SumsAndMaxima(ret.inner))
    /\ (/\ EstimateReturned
        /\ InitsOf(ret.inner) = <<Static(0), Static(0), Static(0)>>
        /\ inners[ret.inner].static_modules[1].info = ModuleInfo(<<1, 6>>, <<>>))
        => ret.v = Some(ResourcesRequired(6, Some(6), 0, None))

(* resources_required has returned on three Static entries of the module   *)
(* with memories 1 and 6.                                                  *)
C2_Witness ==
    /\ EstimateReturned
    /\ InitsOf(ret.inner) = <<Static(0), Static(0), Static(0)>>
    /\ inners[ret.inner].static_modules[1].info = ModuleInfo(<<1, 6>>, <<>>)
    /\ ret.v = Some(ResourcesRequired(6, Some(6), 0, None))

----------------------------------------------------------------------------
(* Construction.                                                           *)

(* A step of the from_parts call in flight. *)
ConstructionStep == ctor.pc # "idle" /\ ctor' # ctor

(* from_parts returns an error value and no Component. *)
ReturnsErr(e) ==
    /\ ret' = [op |-> "from_parts", v |-> Err(e), blob |-> ctor.blob]
    /\ ctor'.pc = "idle"
    /\ handles' = handles
    /\ inners' = inners

DecodeFails ==
    /\ ctor.pc = "decode"
    /\ ~IsSome(ctor.artifacts)
    /\ ~IsOk(from_bytes(wasmtime_info(ctor.code_memory)))

AllocatorRejects ==
    /\ ctor.pc = "validate"
    /\ validate_component(allocator, ctor.info.component, ctor.static_modules)
            = Err("limits")

(* The steps of from_parts after the decoding, in the order of the code. *)
StepAfter(pc) ==
    CASE pc = "validate" -> "register"
      [] pc = "register" -> "assemble"
      [] pc = "assemble" -> "modules"
      [] pc = "modules" -> "finish"
      [] pc = "finish" -> "idle"
      [] OTHER -> "idle"

(* C3: from_parts returns an error value and no Component, and does not    *)
(* panic, (1) when there are no artifacts and decoding the record embedded *)
(* in the code memory fails and (2) when the allocator's                   *)
(* validate_component rejects the descriptor.  When the decoding           *)
(* succeeds, the construction from a blob goes on with the decoded record  *)
(* through the steps the construction from fresh artifacts takes:          *)
(* validation, registration, assembly.                                     *)
C3_ConstructionErrors ==
    /\ [](ret.op = "from_parts" => ret.v # Panic)
    /\ [][ConstructionStep /\ DecodeFails => ReturnsErr("decode")]_vars
    /\ [][ConstructionStep /\ AllocatorRejects => ReturnsErr("limits")]_vars
    /\ [][ConstructionStep /\ ctor.pc = "decode" /\ ~DecodeFails
            => /\ ctor'.pc = "validate"
               /\ IF IsSome(ctor.artifacts)
                    THEN Ok([ty |-> ctor'.ty, info |-> ctor'.info, types |-> ctor'.types,
                             static_modules |-> ctor'.static_modules])
                            = Ok(ctor.artifacts.v)
                    ELSE Ok([ty |-> ctor'.ty, info |-> ctor'.info, types |-> ctor'.types,
                             static_modules |-> ctor'.static_modules])
                            = from_bytes(wasmtime_info(ctor.code_memory))]_vars
    /\ [][ConstructionStep /\ ctor.pc # "decode"
            => ctor'.pc \in {StepAfter(ctor.pc), "idle"}]_vars

(* A construction from a blob has failed in the decoding, on an engine     *)
(* whose allocator has limits.                                             *)
C3_Witness ==
    /\ ret.op = "from_parts"
    /\ ret.v = Err("decode")
    /\ allocator = Pooling
    /\ handles # EmptyBag

----------------------------------------------------------------------------
(* The read-only operations.                                               *)

ReadOps ==
    {"component_type", "resources_required", "trampoline_ptrs",
     "resource_drop_func_ref", "serialize", "image_range", "text", "static_module",
     "signatures", "ty", "env_component", "code_object"}

(* What the call returns when it runs alone on ComponentInner n. *)
ResultAlone(op, n, arg) ==
    CASE op = "component_type" -> component_type(inners[n])
      [] op = "resources_required" -> resources_required(inners[n])
      [] op = "trampoline_ptrs" -> trampoline_ptrs(inners[n], arg)
      [] op = "resource_drop_func_ref" -> resource_drop_func_ref(inners[n], arg)
      [] op = "serialize" -> serialize(inners[n])
      [] op = "image_range" -> image_range(inners[n])
      [] op = "text" -> text(inners[n])
      [] op = "static_module" -> static_module(inners[n], 0)
      [] op = "signatures" -> signatures(inners[n])
      [] op = "ty" -> ty(inners[n])
      [] op = "env_component" -> env_component(inners[n])
      [] op = "code_object" -> inners[n].code

(* The CodeObject's fields, without the Arc's count. *)
CodeFields(code) ==
    [code_memory |-> code.code_memory, signatures |-> code.signatures,
     types |-> code.types]

C5_ClonesAlias ==
    /\ [](\A h \in Held : h.inner = h.origin)
    /\ [](\A g, h \in Held :
            g.origin = h.origin
                => /\ image_range(Self(g)) = image_range(Self(h))
                   /\ signatures(Self(g)) = signatures(Self(h)))
    /\ [][ctor' = ctor
            => /\ Len(inners') = Len(inners)
               /\ Len(codes') = Len(codes)
               /\ Len(registry') = Len(registry)]_vars

(* Two clones of the one Component that was ever constructed are held,     *)
(* after a clone, a drop and a clone.                                      *)
C5_Witness ==
    /\ ret.op = "clone"
    /\ Len(inners) = 1
    /\ inners[1].strong = 2
    /\ \E h \in Held : h.kind = "Component" /\ CopiesIn(h, handles) = 2

(* C6: deserializing the bytes that serialize returned for ComponentInner  *)
(* ret.blob, with the same engine, succeeds, and the new Component has the *)
(* same ty, the same CompiledComponentInfo, and a table of static modules  *)
(* of the same length, holding the same modules in the same order.         *)
C6_RoundTrip ==
    ret.op \in {"from_parts", "deserialize"} /\ ret.blob # 0
        => /\ IsOk(ret.v)
           /\ inners[ret.v.v].ty = inners[ret.blob].ty
           /\ inners[ret.v.v].info = inners[ret.blob].info
           /\ Len(inners[ret.v.v].static_modules) = Len(inners[ret.blob].static_modules)
           /\ \A i \in 1..Len(inners[ret.blob].static_modules) :
                inners[ret.v.v].static_modules[i].info
                    = inners[ret.blob].static_modules[i].info

(* A Component with trampolines, a drop trampoline and a static module was *)
(* serialized and deserialized.                                            *)
C6_Witness ==
    /\ ret.op = "from_parts"
    /\ ret.blob # 0
    /\ IsOk(ret.v)
    /\ ret.v.v # ret.blob
    /\ inners[ret.v.v].info.trampolines # <<>>
    /\ IsSome(inners[ret.v.v].info.resource_drop_wasm_to_native_trampoline)
    /\ inners[ret.v.v].static_modules # <<>>

----------------------------------------------------------------------------
(* Function pointers.                                                      *)

EntryPoints == {"wasm_call", "array_call", "native_call"}

(* C7: trampoline_ptrs of an index within the trampoline table returns,    *)
(* without failing, three addresses; each is not null, lies inside         *)
(* image_range, and is the address of the first byte of the slice          *)
(* [loc.start, loc.start + loc.length) of the text, loc being the stored   *)
(* location of that entry point.                                           *)
C7_TrampolinePtrs ==
    ret.op = "trampoline_ptrs"
        => /\ IsOk(ret.v)
           /\ \A f \in EntryPoints :
                /\ ret.v.v[f] # 0
                /\ InRange(ret.v.v[f], image_range(inners[ret.inner]))
                /\ inners[ret.inner].info.trampolines[ret.arg + 1][f].start
                    + inners[ret.inner].info.trampolines[ret.arg + 1][f].length
                        <= Len(text(inners[ret.inner]))
                /\ ret.v.v[f] = text_ptr(inners[ret.inner])
                    + inners[ret.inner].info.trampolines[ret.arg + 1][f].start

(* trampoline_ptrs has returned for the last trampoline of a table of two. *)
C7_Witness ==
    /\ ret.op = "trampoline_ptrs"
    /\ ret.arg = 1
    /\ Len(inners[ret.inner].info.trampolines) = 2
    /\ IsOk(ret.v)

(* C8: resource_drop_func_ref returns a VMFuncRef whose wasm_call is       *)
(* filled, with the address of the stored location, exactly when the       *)
(* descriptor has a resource_drop_wasm_to_native_trampoline; its other     *)
(* fields are those of the dtor's func_ref, and the dtor is as the host    *)
(* supplied it.                                                            *)
C8_ResourceDropFuncRef ==
    ret.op = "resource_drop_func_ref"
        => /\ IsOk(ret.v)
           /\ IsSome(ret.v.v.wasm_call)
                <=> IsSome(inners[ret.inner].info.resource_drop_wasm_to_native_trampoline)
           /\ IsSome(ret.v.v.wasm_call)
                => ret.v.v.wasm_call
                    = Some(text_ptr(inners[ret.inner])
                        + inners[ret.inner].info.resource_drop_wasm_to_native_trampoline.v.start)
           /\ ret.v.v.native_call = ret.arg.func_ref.native_call
           /\ ret.v.v.array_call = ret.arg.func_ref.array_call
           /\ ret.v.v.type_index = ret.arg.func_ref.type_index
           /\ ret.v.v.vmctx = ret.arg.func_ref.vmctx
           /\ ret.arg \in Dtors

(* The lookup has returned a filled wasm_call. *)
C8_Witness ==
    /\ ret.op = "resource_drop_func_ref"
    /\ IsOk(ret.v)
    /\ IsSome(ret.v.v.wasm_call)
    /\ InRange(ret.v.v.wasm_call.v, image_range(inners[ret.inner]))

----------------------------------------------------------------------------
(* The type query.                                                         *)

Live(n) == inners[n].strong > 0

(* The resource types among the items of a result of imports() or          *)
(* exports().                                                              *)
ResourceTypesIn(items) ==
    {items[i].item.ty : i \in {j \in 1..Len(items) : items[j].item.kind = "Resource"}}

(* The component type ComponentInner n declares: its imports and exports   *)
(* as TypeDefs.                                                            *)
DeclaredType(n) == types(inners[n]).components[inners[n].ty + 1]

(* C9: the resource types that component_type hands out for the imports of *)
(* one Component are unequal to all those it hands out for the imports of  *)
(* any other constructed Component, also of one built from the same        *)
(* source.                                                                 *)
C9_ImportsDifferAcrossComponents ==
    ret.op = "component_type"
        => \A b \in DOMAIN inners :
            b # ret.inner /\ Live(b)
                => ResourceTypesIn(ret.v.imports)
                    \cap ResourceTypesIn(component_type(inners[b]).imports) = {}

(* component_type has returned a resource import for one of two live       *)
(* Components built from the same source.                                  *)
C9_Witness ==
    /\ ret.op = "component_type"
    /\ ResourceTypesIn(ret.v.imports) # {}
    /\ \E b \in DOMAIN inners :
        /\ b # ret.inner
        /\ Live(b) /\ Live(ret.inner)
        /\ DeclaredType(b) = DeclaredType(ret.inner)
        /\ inners[b].info = inners[ret.inner].info

(* An export that is the import itself: both name the same resource. *)
ReExports(n, e, i) ==
    /\ DeclaredType(n).exports[e].kind = "Resource"
    /\ DeclaredType(n).imports[i].kind = "Resource"
    /\ DeclaredType(n).exports[e].index = DeclaredType(n).imports[i].index

(* C10: in the result of one component_type call, the resource type of an  *)
(* export that re-exports an imported resource is equal to the resource    *)
(* type of that import.                                                    *)
C10_ReExportEqualsImport ==
    ret.op = "component_type"
        => \A e \in 1..Len(ret.v.exports), i \in 1..Len(ret.v.imports) :
            ReExports(ret.inner, e, i)
                => ret.v.exports[e].item = ret.v.imports[i].item

(* component_type has returned for a component that re-exports its         *)
(* resource import.                                                        *)
C10_Witness ==
    /\ ret.op = "component_type"
    /\ \E e \in 1..Len(ret.v.exports), i \in 1..Len(ret.v.imports) :
        /\ ReExports(ret.inner, e, i)
        /\ ret.v.exports[e].item = ret.v.imports[i].item
        /\ ret.v.exports[e].item.ty.kind = "Uninstantiated"

----------------------------------------------------------------------------
(* The type queries before and after instantiation: constructions, clones, *)
(* drops, component_type calls whose result is kept, and instantiations.   *)
(* One component is built; it is queried, cloned and instantiated.         *)
NextTypes ==
    \/ ctor.n = 0 /\ \E src \in CallSources : New(src)
    \/ FromParts
    \/ \E h \in Held : Clone(h)
    \/ \E h \in Held : Drop(h)
    \/ \E h \in Held : CallComponentType(h)
    \/ \E h \in Held : KeepComponentType(h)
    \/ \E h \in Held, supplied \in Seqs(Suppliable, 1) : Instantiate(h, supplied)

SpecTypes == InitCalls /\ [][NextTypes]_vars

(* The items of two results of imports() are equal position by position. *)
SameImports(a, b) ==
    /\ Len(a.imports) = Len(b.imports)
    /\ \A i \in 1..Len(a.imports) : a.imports[i].item = b.imports[i].item

(* C11: the import resource types in a result of component_type that the   *)
(* embedder kept are equal, position by position, to those that a call on  *)
(* the same Component or on a clone of it returns at any later time,       *)
(* whatever clones, drops and instantiations lie between the calls; each   *)
(* call starts from an empty resources table.                              *)
C11_ImportsStable ==
    /\ kept.inner # 0 /\ inners[kept.inner].strong > 0
        => SameImports(kept.v, component_type(inners[kept.inner]))
    /\ kept.inner # 0 /\ ret.op = "component_type" /\ ret.inner = kept.inner
        => SameImports(kept.v, ret.v)

(* A result with a resource import was kept, the Component was cloned and  *)
(* instantiated, and component_type was called again.                      *)
C11_Witness ==
    /\ kept.inner # 0
    /\ ResourceTypesIn(kept.v.imports) # {}
    /\ ret.op = "component_type" /\ ret.inner = kept.inner
    /\ inners[kept.inner].strong = 3
    /\ \E k \in 1..Len(instances) : instances[k].inner = kept.inner

(* The exports of component n that name a resource the component defines,  *)
(* and those that name a resource it imports.                              *)
DefinedExports(n) ==
    {e \in 1..Len(DeclaredType(n).exports) :
        /\ DeclaredType(n).exports[e].kind = "Resource"
        /\ DeclaredType(n).exports[e].index >= NumImportedResources(inners[n])}
PassThroughExports(n) ==
    {e \in 1..Len(DeclaredType(n).exports) :
        /\ DeclaredType(n).exports[e].kind = "Resource"
        /\ DeclaredType(n).exports[e].index < NumImportedResources(inners[n])}

(* The resource types that component_type declares for component n. *)
DeclaredResourceTypes(n) ==
    ResourceTypesIn(component_type(inners[n]).imports)
        \cup ResourceTypesIn(component_type(inners[n]).exports)

(* C12: for a resource that the component defines and exports, two         *)
(* instantiations of the component observe export types that are unequal   *)
(* to each other, and each is unequal to every import and export resource  *)
(* type that component_type of the component declares.                     *)
C12_FreshPerInstantiation ==
    \A j, k \in 1..Len(instances) :
        instances[j].inner = instances[k].inner
            => \A e \in DefinedExports(instances[k].inner) :
                /\ j # k => InstanceExports(j)[e].item # InstanceExports(k)[e].item
                /\ InstanceExports(k)[e].item.ty
                        \notin DeclaredResourceTypes(instances[k].inner)

(* One component that defines and exports a resource was instantiated      *)
(* twice.                                                                  *)
C12_Witness ==
    /\ Len(instances) = 2
    /\ instances[1].inner = instances[2].inner
    /\ DefinedExports(instances[1].inner) # {}
    /\ ret.op = "instantiate"

----------------------------------------------------------------------------
(* The signature registry.                                                 *)

TypeCollections == {i \in 1..Len(registry) : registry[i].kind = "TypeCollection"}

(* C14: every construction that gets past the validation registers one     *)
(* TypeCollection, that of the construction's one CodeObject, which the    *)
(* Component and all its static modules share; two constructions, also     *)
(* from the same bytes, have two registrations.                            *)
C14_RegisteredOncePerConstruction ==
    /\ Cardinality(TypeCollections)
        = Len(codes) + (IF ctor.pc = "assemble" THEN 1 ELSE 0)
    /\ \A c \in 1..Len(codes) :
        /\ codes[c].signatures \in TypeCollections
        /\ registry[codes[c].signatures].types = codes[c].types.module_types
        /\ \A d \in 1..Len(codes) : c # d => codes[c].signatures # codes[d].signatures
    /\ \A n \in 1..Len(inners) :
        /\ \A m \in 1..Len(inners) : n # m => signatures(inners[n]) # signatures(inners[m])
        /\ \A i \in 1..Len(inners[n].static_modules) :
            inners[n].static_modules[i].code = inners[n].code
        /\ inners[n].strong > 0 => registry[signatures(inners[n])].live

(* A Component with a static module was serialized and its bytes           *)
(* deserialized: two live Components of the same bytes.                    *)
C14_Witness ==
    /\ ret.op = "from_parts" /\ IsOk(ret.v) /\ ret.blob # 0
    /\ Len(inners) = 2
    /\ inners[1].strong > 0 /\ inners[2].strong > 0
    /\ inners[1].static_modules # <<>>
    /\ code_object(inners[1]).code_memory.mmap = code_object(inners[2]).code_memory.mmap
    /\ signatures(inners[1]) # signatures(inners[2])

----------------------------------------------------------------------------
(* The estimator's control flow.                                           *)

(* The scheduler lets a call that is in its loop take its next iteration. *)
SpecEstimatorFair == SpecEstimator /\ WF_vars(ResourcesRequiredStep)

(* Every Static entry of ComponentInner n names a module of its table. *)
WellFormed(n) ==
    \A i \in StaticsOf(n) : InitsOf(n)[i].index < Len(inners[n].static_modules)

(* C15: on a well-formed descriptor resources_required visits the          *)
(* initializers in order, each at most once, and then returns Some of an   *)
(* aggregate or None: it returns no error, does not panic, and every call  *)
(* that has begun returns.                                                 *)
C15_EstimatorTotal ==
    /\ [](EstimateReturned /\ WellFormed(ret.inner)
            => ret.v.tag \in {"None", "Some"})
    /\ [](est.pc = "loop" => est.i \in 1..(Len(InitsOf(est.inner)) + 1))
    /\ [][est.pc = "loop" /\ est'.pc = "loop"
            => est'.inner = est.inner /\ est'.i = est.i + 1]_vars
    /\ (est.pc = "loop") ~> (est.pc = "idle")

(* resources_required has returned after a list of full length. *)
C15_Witness ==
    /\ EstimateReturned
    /\ WellFormed(ret.inner)
    /\ Len(InitsOf(ret.inner)) = MaxInits
    /\ ret.v # None
    /\ StaticsOf(ret.inner) # {}

----------------------------------------------------------------------------
(* The estimate as a function of the initializer list.                     *)

(* ComponentInner n with another initializer list in its descriptor. *)
WithInits(n, inits) == [inners[n] EXCEPT !.info.component.initializers = inits]

IsNeutral(init) == init.kind \in NeutralKinds

(* The list with every resource-neutral initializer taken out, with the    *)
(* entry at position p taken out, and with init put in before position p.  *)
WithoutNeutral(inits) == SelectSeq(inits, LAMBDA init : ~IsNeutral(init))
RemoveAt(inits, p) == SubSeq(inits, 1, p - 1) \o SubSeq(inits, p + 1, Len(inits))
InsertAt(inits, p, init) ==
    SubSeq(inits, 1, p - 1) \o <<init>> \o SubSeq(inits, p, Len(inits))

(* C16: the result of resources_required on a list is the result on the    *)
(* list with all its LowerImport, ExtractMemory, ExtractRealloc,           *)
(* ExtractPostReturn and Resource entries removed, on the list with any    *)
(* one of them removed, and on the list with one more of them inserted at  *)
(* any position.                                                           *)
C16_NeutralInitializers ==
    EstimateReturned =>
        /\ ret.v = resources_required(WithInits(ret.inner, WithoutNeutral(InitsOf(ret.inner))))
        /\ \A p \in 1..Len(InitsOf(ret.inner)) :
              IsNeutral(InitsOf(ret.inner)[p]) =>
                ret.v = resources_required(WithInits(ret.inner, RemoveAt(InitsOf(ret.inner), p)))
        /\ \A p \in 1..(Len(InitsOf(ret.inner)) + 1), k \in NeutralKinds :
              ret.v = resources_required(
                        WithInits(ret.inner, InsertAt(InitsOf(ret.inner), p, Neutral(k))))

(* resources_required has returned an aggregate after a list that holds    *)
(* an ExtractMemory entry between two Static entries.                      *)
C16_Witness ==
    /\ EstimateReturned
    /\ Len(InitsOf(ret.inner)) >= 3
    /\ InitsOf(ret.inner)[1].kind = "Static"
    /\ InitsOf(ret.inner)[2].kind = "ExtractMemory"
    /\ InitsOf(ret.inner)[3].kind = "Static"
    /\ IsSome(ret.v)
    /\ ret.v.v.num_memories > 0

(* The permutations of 1..n, and a list read through one of them. *)
PermutationsOf(n) == {f \in [1..n -> 1..n] : \A i, j \in 1..n : f[i] = f[j] => i = j}
Permuted(inits, f) == [i \in 1..Len(inits) |-> inits[f[i]]]

(* C17: resources_required returns the same value on every permutation of  *)
(* the initializer list of a well-formed descriptor: None on each of them  *)
(* or Some of the same four counters on each of them.                      *)
C17_OrderIrrelevant ==
    EstimateReturned /\ WellFormed(ret.inner) =>
        \A f \in PermutationsOf(Len(InitsOf(ret.inner))) :
            ret.v = resources_required(WithInits(ret.inner, Permuted(InitsOf(ret.inner), f)))

(* resources_required has returned None after a list in which a Static     *)
(* entry of a module with a memory comes before the Import, and it has     *)
(* returned an aggregate after a list of two different modules.            *)
C17_Witness ==
    /\ EstimateReturned
    /\ Len(InitsOf(ret.inner)) >= 2
    /\ InitsOf(ret.inner)[1].kind = "Static"
    /\ ModuleOf(ret.inner, 1).memories # <<>>
    /\ \/ InitsOf(ret.inner)[2].kind = "Import" /\ ret.v = None
       \/ /\ InitsOf(ret.inner)[2].kind = "Static"
          /\ InitsOf(ret.inner)[2].index # InitsOf(ret.inner)[1].index
          /\ IsSome(ret.v)

----------------------------------------------------------------------------
(* Re-serialization.                                                       *)

(* The mapped image behind ComponentInner n. *)
ImageBehind(n) == codes[inners[n].code].code_memory.mmap

(* C18: serialize returns Ok of exactly the mapped image of the            *)
(* Component's code store, which holds the metadata record of the          *)
(* Component; a call on any handle of the same ComponentInner returns the  *)
(* same bytes, a call that follows an earlier call on the same             *)
(* ComponentInner returns the bytes of the earlier call, and the call      *)
(* changes neither a ComponentInner, nor a code store, nor the registry,   *)
(* nor the handles.                                                        *)
C18_SerializeVerbatim ==
    /\ [](ret.op = "serialize" =>
            /\ ret.v = Ok(ImageBehind(ret.inner))
            /\ IsOk(load_code_bytes(ret.v.v, ObjectKindComponent))
            /\ IsOk(from_bytes(wasmtime_info(
                    load_code_bytes(ret.v.v, ObjectKindComponent).v)))
            /\ from_bytes(wasmtime_info(
                    load_code_bytes(ret.v.v, ObjectKindComponent).v)).v.info
                  = inners[ret.inner].info
            /\ \A h \in Held : h.kind = "Component" /\ h.inner = ret.inner
                    => serialize(Self(h)) = ret.v)
    /\ [][ret'.op = "serialize" /\ blob.from = ret'.inner
            => ret'.v = Ok(blob.bytes)]_vars
    /\ [][ret'.op = "serialize" /\ ret' # ret
            => UNCHANGED <<inners, codes, registry, handles, allocator>>]_vars

(* serialize has returned on a Component that has a clone and static       *)
(* modules.                                                                *)
C18_Witness ==
    /\ ret.op = "serialize"
    /\ blob.from = ret.inner
    /\ inners[ret.inner].strong >= 2
    /\ inners[ret.inner].static_modules # <<>>
    /\ \E h \in Held : h.kind = "Component" /\ h.inner = ret.inner
                        /\ CopiesIn(h, handles) = 2

----------------------------------------------------------------------------
(* Contract violations.                                                    *)

(* The crate's own calls of func, trampoline_ptrs and static_module on a   *)
(* live Component, with arguments inside and outside the text and the      *)
(* tables.                                                                 *)
NextContracts ==
    \/ ctor.n = 0 /\ \E src \in CallSources : New(src)
    \/ FromParts
    \/ \E h \in Held : \E loc \in LocsAround(Self(h)) : CallFunc(h, loc)
    \/ \E h \in Held : \E index \in 0..(Len(Self(h).info.trampolines) + 1) :
            CallTrampolinePtrsAt(h, index)
    \/ \E h \in Held : \E idx \in 0..(Len(Self(h).static_modules) + 1) :
            CallStaticModule(h, idx)

SpecContracts == InitCalls /\ [][NextContracts]_vars

(* The length of the text of ComponentInner n and the address of its       *)
(* first byte.                                                             *)
TextLen(n) == codes[inners[n].code].code_memory.text.len
TextBase(n) == MapBase(inners[n].code) + codes[inners[n].code].code_memory.text.start

(* C19: func panics exactly when the range of its FunctionLoc is not       *)
(* inside the text and otherwise returns the address of the range, which   *)
(* lies inside the mapped text; trampoline_ptrs and static_module panic    *)
(* exactly when their index is outside the table; none of them returns an  *)
(* error value.                                                            *)
C19_ContractViolationsPanic ==
    /\ ret.op \in {"func", "trampoline_ptrs", "static_module"}
            => ret.v.tag \in {"Ok", "Panic"}
    /\ ret.op = "func" =>
            IF ret.arg.start + ret.arg.length > TextLen(ret.inner)
                THEN ret.v = Panic
                ELSE /\ ret.v = Ok(TextBase(ret.inner) + ret.arg.start)
                     /\ ret.v.v >= TextBase(ret.inner)
                     /\ ret.v.v + ret.arg.length <= TextBase(ret.inner) + TextLen(ret.inner)
    /\ ret.op = "trampoline_ptrs" =>
            IF ret.arg >= Len(inners[ret.inner].info.trampolines)
                THEN ret.v = Panic
                ELSE IsOk(ret.v)
    /\ ret.op = "static_module" =>
            IF ret.arg >= Len(inners[ret.inner].static_modules)
                THEN ret.v = Panic
                ELSE ret.v = Ok(inners[ret.inner].static_modules[ret.arg + 1])

(* func has panicked on a range that starts inside the text and ends       *)
(* outside it.                                                             *)
C19_Witness ==
    /\ ret.op = "func"
    /\ ret.arg.start < TextLen(ret.inner)
    /\ ret.arg.length > 0
    /\ ret.arg.start + ret.arg.length > TextLen(ret.inner)
    /\ ret.v = Panic

----------------------------------------------------------------------------
(* The life cycle of the shared code store.                                *)

(* Constructions that succeed or fail, clones of the Component, runtime    *)
(* infos, clones of nested Modules, and drops of all of them in any order. *)
NextLifecycle ==
    \/ \E src \in Sources : New(src)
    \/ FromParts
    \/ \E h \in Held : Clone(h)
    \/ \E h \in Held : RuntimeInfo(h)
    \/ \E h \in Held : Drop(h)
    \/ \E h \in Held, idx \in 0..1 : StaticModuleClone(h, idx)
    \/ \E h \in Held : DropModule(h)

SpecLifecycle == Init /\ [][NextLifecycle]_vars

(* The holders of the Arc<ComponentInner> n among the handles: of the      *)
(* given kinds, counted with their multiplicity.                           *)
HoldersOf(n, kinds) ==
    LET hs == {h \in Held : h.inner = n /\ h.kind \in kinds}
    IN  SumOver(hs, [h \in hs |-> CopiesIn(h, handles)])

ComponentClones(n) == HoldersOf(n, {"Component"})
InnerHolders(n) == HoldersOf(n, {"Component", "RuntimeInfo"})

(* The ModuleInners of ComponentInner n that are alive: held by the        *)
(* ComponentInner's table or by a Module outside.                          *)
ModuleInnersAlive(n) ==
    Cardinality({i \in 1..Len(inners[n].static_modules) :
                    inners[n].strong > 0 \/ ModuleHeld(n, i - 1)})

(* The shares of CodeObject c held by a from_parts that has not returned:  *)
(* its `code`, and the static modules it has built.                        *)
InFlight(c) ==
    IF ctor.pc = "modules" /\ ctor.code = c THEN 1
    ELSE IF ctor.pc = "finish" /\ ctor.code = c THEN 1 + Len(ctor.static_modules)
    ELSE 0

(* The holders of the Arc<CodeObject> c. *)
CodeHolders(c) ==
    LET ns == {n \in 1..Len(inners) : inners[n].code = c}
    IN  InFlight(c)
        + SumOver(ns, [n \in ns |-> (IF inners[n].strong > 0 THEN 1 ELSE 0)
                                        + ModuleInnersAlive(n)])

(* C20: every construction creates one CodeObject, which the Component and *)
(* its static Modules share; a ComponentInner is destroyed exactly when    *)
(* the last holder of its Arc is dropped, a Component clone or a runtime   *)
(* info; a code store is torn down, and its registration with it, exactly  *)
(* when its last holder is dropped, a ComponentInner, a nested Module or   *)
(* the construction in flight; what is destroyed stays destroyed.          *)
C20_Lifecycle ==
    /\ [](\A n \in 1..Len(inners) :
            /\ inners[n].code \in 1..Len(codes)
            /\ \A i \in 1..Len(inners[n].static_modules) :
                    inners[n].static_modules[i].code = inners[n].code
            /\ \A m \in 1..Len(inners) : m # n => inners[m].code # inners[n].code
            /\ inners[n].strong = InnerHolders(n))
    /\ [](\A c \in 1..Len(codes) :
            /\ codes[c].strong = CodeHolders(c)
            /\ registry[codes[c].signatures].live <=> codes[c].strong > 0)
    /\ [][\A n \in 1..Len(inners) : inners[n].strong = 0 => inners'[n].strong = 0]_vars
    /\ [][\A c \in 1..Len(codes) : codes[c].strong = 0 => codes'[c].strong = 0]_vars

(* The claim as it is stated: only Component clones keep a ComponentInner  *)
(* alive, and only Component clones and nested Modules keep a code store.  *)
C20_AsStated ==
    /\ \A n \in 1..Len(inners) : inners[n].strong = 0 <=> ComponentClones(n) = 0
    /\ \A c \in 1..Len(codes) :
            codes[c].strong = 0 <=>
                /\ InFlight(c) = 0
                /\ \A n \in 1..Len(inners) : inners[n].code = c =>
                        /\ ComponentClones(n) = 0
                        /\ HoldersOf(n, {"Module"}) = 0

(* The last holder of a ComponentInner was dropped while a nested Module   *)
(* is held outside: the ComponentInner is destroyed and the code store     *)
(* lives on.                                                               *)
C20_Witness ==
    /\ ret.op = "drop"
    /\ inners[ret.inner].strong = 0
    /\ HoldersOf(ret.inner, {"Module"}) > 0
    /\ codes[inners[ret.inner].code].strong = 1
    /\ registry[codes[inners[ret.inner].code].signatures].live

----------------------------------------------------------------------------
(* The order of the steps of from_parts.                                   *)

(* The steps in the order of the code: each goes on to the next, and the   *)
(* three with a `?` may return instead.                                    *)
StepOrder ==
    {<<"decode", "validate">>, <<"decode", "idle">>,
     <<"validate", "register">>, <<"validate", "idle">>,
     <<"register", "assemble">>, <<"assemble", "modules">>,
     <<"modules", "finish">>, <<"modules", "idle">>,
     <<"finish", "idle">>}

(* The CompiledModuleInfos of the static modules of ComponentInner n. *)
StaticInfosOf(n) ==
    [i \in 1..Len(inners[n].static_modules) |-> inners[n].static_modules[i].info]

(* C21: from_parts takes its steps in the order decode, validate,          *)
(* register, assemble, modules, finish.  The decoding and the allocator's  *)
(* validation change neither the registry, nor the CodeObjects, nor the    *)
(* ComponentInners, nor the handles, and when one of them fails            *)
(* from_parts returns an error at that step.  A TypeCollection is          *)
(* registered only by the register step, a CodeObject is created only by   *)
(* the assemble step, a ComponentInner and its first handle only by the    *)
(* finish step; every step after the validation, and every handle, belongs *)
(* to a component the allocator has accepted.                              *)
C21_ConstructionOrder ==
    /\ [][ConstructionStep => <<ctor.pc, ctor'.pc>> \in StepOrder]_vars
    /\ [][ConstructionStep /\ ctor.pc \in {"decode", "validate"}
            => UNCHANGED <<registry, codes, inners, handles>>]_vars
    /\ [][ConstructionStep /\ ctor.pc \in {"decode", "validate"} /\ ctor'.pc = "idle"
            => ret'.op = "from_parts" /\ ret'.v.tag = "Err"]_vars
    /\ [][Len(registry') > Len(registry)
            => \/ ctor.pc = "register" /\ ctor'.pc = "assemble"
               \/ ctor.pc = "finish" /\ registry'[Len(registry')].kind = "FuncType"]_vars
    /\ [][Len(codes') > Len(codes) => ctor.pc = "assemble" /\ ctor'.pc = "modules"]_vars
    /\ [][Len(inners') > Len(inners)
            => /\ ctor.pc = "finish"
               /\ ret' = [op |-> "from_parts", v |-> Ok(Len(inners')), blob |-> ctor.blob]
               /\ \A h \in BagToSet(handles') :
                        h.inner = Len(inners') => CopiesIn(h, handles') = 1]_vars
    /\ [](ctor.pc = "validate" => ctor.signatures = 0 /\ ctor.code = 0)
    /\ [](ctor.pc \in {"register", "assemble", "modules"}
            => IsOk(validate_component(allocator, ctor.info.component,
                                       ctor.static_modules)))
    /\ [](\A h \in Held :
            /\ h.inner \in 1..Len(inners)
            /\ IsOk(validate_component(allocator, inners[h.inner].info.component,
                                       StaticInfosOf(h.inner))))

(* The allocator has rejected a construction while an earlier Component    *)
(* is held: every registration and every CodeObject there is belongs to a  *)
(* ComponentInner.                                                         *)
C21_Witness ==
    /\ ret.op = "from_parts"
    /\ ret.v = Err("limits")
    /\ allocator = Pooling
    /\ handles # EmptyBag
    /\ Len(codes) = Len(inners)
    /\ Cardinality(TypeCollections) = Len(inners)

----------------------------------------------------------------------------
(* cranelift-codegen-meta: gen_isle::gen_common_isle, the sections that    *)
(* declare the array types and the InstructionData enum.                   *)

(* cdsl::formats::InstructionFormat *)
InstructionFormat(name, num_value_operands, has_value_list, num_block_operands, imm_fields, typevar_operand) ==
    [name |-> name, num_value_operands |-> num_value_operands,
     has_value_list |-> has_value_list, num_block_operands |-> num_block_operands,
     imm_fields |-> imm_fields, typevar_operand |-> typevar_operand]

(* InstructionFormatBuilder::build: the controlling type variable is       *)
(* inferred from the first value operand unless the format names another.  *)
build(b) ==
    IF ~IsSome(b.typevar_operand) /\ b.num_value_operands > 0
        THEN [b EXCEPT !.typevar_operand = Some(0)]
        ELSE b

(* The builders of the meta crate: new(name), value() and block() up to    *)
(* MaxOperands times together, varargs() or not, and typevar_operand(i)    *)
(* on the last value operand or not at all.                                *)
Builders(name) ==
    {InstructionFormat(name, nv, hvl, nb, <<>>, tv) :
        <<nv, hvl, nb, tv>> \in
            UNION {{<<n, l, b, t>> : l \in BOOLEAN, b \in 0..(MaxOperands - n),
                                     t \in IF n = 0 THEN {None}
                                                      ELSE {None, Some(n - 1)}} :
                    n \in 0..MaxOperands}}

(* The lines of the ISLE text.  A name made with format!("ValueArray{}", n) *)
(* is the pair of its stem and n.                                          *)
Named(stem, n) == <<stem, n>>
Plain(name) == <<name>>
Line(words) == [kind |-> "text", text |-> words]
TypeExternEnum(name) == [kind |-> "type", name |-> name]
Decl(name, args, result) == [kind |-> "decl", name |-> name, args |-> args, result |-> result]
ExternConstructor(name, fn) == [kind |-> "constructor", name |-> name, fn |-> fn]
ExternExtractor(name, fn) == [kind |-> "extractor", name |-> name, fn |-> fn]
Variant(name, fields) == [kind |-> "variant", name |-> name, fields |-> fields]
Field(member, type) == [member |-> member, ty |-> type]

(* Iterating a BTreeSet<usize>: ascending, each element once. *)
RECURSIVE BTreeSetIter(_)
BTreeSetIter(S) ==
    IF S = {} THEN <<>>
    ELSE LET m == CHOOSE x \in S : \A y \in S : x <= y
         IN  <<m>> \o BTreeSetIter(S \ {m})

(* An arity collected once per format, in the order of the formats. *)
value_array_arities_per_format(fs) ==
    LET sel == SelectSeq(fs, LAMBDA f : /\ IsSome(f.typevar_operand)
                                        /\ ~f.has_value_list
                                        /\ f.num_value_operands # 1)
    IN  [k \in 1..Len(sel) |-> sel[k].num_value_operands]

(* formats.iter().filter(|f| f.typevar_operand.is_some()                   *)
(*     && !f.has_value_list && f.num_value_operands != 1)                  *)
(*     .map(|f| f.num_value_operands).collect::<BTreeSet<_>>()             *)
value_array_arities(fs) ==
    BTreeSetIter({fs[k].num_value_operands : k \in
        {j \in 1..Len(fs) : /\ IsSome(fs[j].typevar_operand)
                            /\ ~fs[j].has_value_list
                            /\ fs[j].num_value_operands # 1}})

(* formats.iter().filter(|f| f.num_block_operands > 1)                     *)
(*     .map(|f| f.num_block_operands).collect::<BTreeSet<_>>()             *)
block_array_arities(fs) ==
    BTreeSetIter({fs[k].num_block_operands : k \in
        {j \in 1..Len(fs) : fs[j].num_block_operands > 1}})

(* The lines written for one arity of one kind of array. *)
ArrayLines(stem, term, elem, n) ==
    <<Line(<<"ISLE representation of", elem, n>>),
      TypeExternEnum(Named(stem, n)),
      Decl(Named(term, n), [i \in 1..n |-> elem], Named(stem, n)),
      ExternConstructor(Named(term, n), Named(<<"pack", term>>, n)),
      ExternExtractor(Named(term, n), Named(<<"unpack", term>>, n))>>

ValueArraysSection(fs) ==
    <<Line("Value Arrays")>>
    \o Concat([k \in 1..Len(value_array_arities(fs)) |->
            ArrayLines("ValueArray", "value_array", "Value", value_array_arities(fs)[k])])

BlockArraysSection(fs) ==
    <<Line("Block Arrays")>>
    \o Concat([k \in 1..Len(block_array_arities(fs)) |->
            ArrayLines("BlockArray", "block_array", "BlockCall", block_array_arities(fs)[k])])

(* The variant of InstructionData written for one format. *)
VariantOf(format) ==
    Variant(format.name,
        <<Field("opcode", Plain("Opcode"))>>
        \o (IF format.has_value_list THEN <<Field("args", Plain("ValueList"))>>
            ELSE IF format.num_value_operands = 1 THEN <<Field("arg", Plain("Value"))>>
            ELSE IF format.num_value_operands > 1
                THEN <<Field("args", Named("ValueArray", format.num_value_operands))>>
            ELSE <<>>)
        \o (IF format.num_block_operands = 0 THEN <<>>
            ELSE IF format.num_block_operands = 1
                THEN <<Field("destination", Plain("BlockCall"))>>
            ELSE <<Field("blocks", Named("BlockArray", format.num_block_operands))>>)
        \o [i \in 1..Len(format.imm_fields) |->
                Field(format.imm_fields[i].member, Plain(format.imm_fields[i].rust_type))])

InstructionDataSection(fs) ==
    <<Line("InstructionData"), TypeExternEnum(Plain("InstructionData"))>>
    \o [k \in 1..Len(fs) |-> VariantOf(fs[k])]

(* The text of gen_common_isle, from the Value Arrays section to the       *)
(* InstructionData declaration.                                            *)
gen_common_isle(fs) ==
    ValueArraysSection(fs) \o BlockArraysSection(fs) \o InstructionDataSection(fs)

(* The meta crate defines a format. *)
DefineFormat(b) ==
    /\ fmt = <<>>
    /\ Len(formats) < MaxFormats
    /\ formats' = Append(formats, build(b))
    /\ UNCHANGED <<fmt, kept, instances, allocator, registry, codes, inners, handles, blob,
                   ctor, est, ret>>

(* gen_common_isle(&formats, ..) writes the text. *)
GenCommonIsle ==
    /\ fmt = <<>>
    /\ fmt' = gen_common_isle(formats)
    /\ UNCHANGED <<formats, kept, instances, allocator, registry, codes, inners, handles,
                   blob, ctor, est, ret>>

NextIsle ==
    \/ \E b \in Builders(Len(formats) + 1) : DefineFormat(b)
    \/ GenCommonIsle

SpecIsle == InitCalls /\ [][NextIsle]_vars

----------------------------------------------------------------------------
(* The array types of the ISLE text.                                       *)

ArrayStems == {"ValueArray", "BlockArray"}

(* The type names the variants of InstructionData refer to, and the lines  *)
(* that declare a type of a given name.                                    *)
ReferencedTypes ==
    UNION {{fmt[k].fields[i].ty : i \in 1..Len(fmt[k].fields)} :
            k \in {j \in 1..Len(fmt) : fmt[j].kind = "variant"}}
Declarations(name) == {k \in 1..Len(fmt) : fmt[k].kind = "type" /\ fmt[k].name = name}

(* The variant written for the format at position p of the list. *)
VariantLine(p) == fmt[Len(fmt) - Len(formats) + p]

(* C22: in the text of gen_common_isle every ValueArray<n> and every       *)
(* BlockArray<n> that a variant of InstructionData refers to is declared   *)
(* in the same text, once: a format without a value list and with n > 1    *)
(* value operands refers to ValueArray<n>, a format with n > 1 block       *)
(* operands refers to BlockArray<n>, and no array type is declared twice.  *)
C22_ArrayTypesDeclared ==
    fmt # <<>> =>
        /\ \A p \in 1..Len(formats) :
            /\ VariantLine(p).kind = "variant" /\ VariantLine(p).name = formats[p].name
            /\ ~formats[p].has_value_list /\ formats[p].num_value_operands > 1
                => /\ \E i \in 1..Len(VariantLine(p).fields) :
                        VariantLine(p).fields[i]
                            = Field("args", Named("ValueArray", formats[p].num_value_operands))
                   /\ Cardinality(Declarations(
                            Named("ValueArray", formats[p].num_value_operands))) = 1
            /\ formats[p].num_block_operands > 1
                => /\ \E i \in 1..Len(VariantLine(p).fields) :
                        VariantLine(p).fields[i]
                            = Field("blocks", Named("BlockArray", formats[p].num_block_operands))
                   /\ Cardinality(Declarations(
                            Named("BlockArray", formats[p].num_block_operands))) = 1
        /\ \A name \in ReferencedTypes :
                Len(name) > 1
                    => name[1] \in ArrayStems /\ Cardinality(Declarations(name)) = 1
        /\ \A k \in 1..Len(fmt) :
                fmt[k].kind = "type" => Cardinality(Declarations(fmt[k].name)) = 1

(* The text was written for two formats that both have two value operands  *)
(* and no value list, the second with a type variable operand of its own   *)
(* choice, and the text declares ValueArray2 once.                         *)
C22_Witness ==
    /\ fmt # <<>>
    /\ Len(formats) >= 2
    /\ \A p \in 1..2 : ~formats[p].has_value_list /\ formats[p].num_value_operands = 2
    /\ formats[2].typevar_operand = Some(1)
    /\ Named("ValueArray", 2) \in ReferencedTypes
    /\ Cardinality(Declarations(Named("ValueArray", 2))) = 1

====
